---- MODULE Spec2Model ----
(***************************************************************************)
(* Model of the plugin cache layer of nodle-plugin-sdk (src/src/cache.rs): *)
(* cache keys and key patterns, the host-provided PluginCache store, and   *)
(* the plugin-local PluginCacheManager with its strategy wrappers.         *)
(***************************************************************************)
EXTENDS Integers, Sequences, FiniteSets, TLC

VARIABLES
    cache,          \* the host's PluginCache: a function from the keys present to their data
    managed_keys,   \* PluginCacheManager.managed_keys: Vec<PluginCacheKey>
    call,           \* the operation that ran last, with its arguments
    ret,            \* what that operation returned to its caller
    store_ret,      \* what the PluginCache returned to the manager inside that operation
    pruned,         \* how many keys that operation dropped from managed_keys
    threads,        \* per thread: the call of the PluginCache it is inside of, if any
    written,        \* the (key, data) pairs that an insert has written in full
    graph,          \* per node id: the host's view of the node and of its running hook
    running,        \* the hook calls in flight, as <<node id, hook>> pairs
    hooks,          \* the hook objects: which object each holder has, and each object's state
    peer_keys       \* managed_keys of a second PluginCacheManager with the same plugin id

vars == <<cache, managed_keys, call, ret, store_ret, pruned, threads, written, graph,
         running, hooks, peer_keys>>

\* What a call of the cache, the manager or a strategy by a single caller leaves alone.
aux == <<threads, written, graph, running, hooks, peer_keys>>

\* ---------------------------------------------------------------- bounds

\* Longest managed_keys vector the manager is driven to when it alone uses the cache.
MaxManaged == 3
\* Longest managed_keys vector, and most cache entries, when other holders of the
\* cache insert and evict entries behind the manager's back.
MaxShared == 2

\* The most keys a hook object records.
MaxTracked == 3

\* The width of usize in the model, in bits.
UsizeBits == 3

\* The most characters of an identifier of a cache_utils key.
MaxIdLen == 3

\* The most options of an InterfaceParameter::Enum.
MaxOptions == 2

\* ---------------------------------------------------------------- data

\* Option<T>: None is the empty sequence, Some(x) the one-element sequence.
None == <<>>
Some(x) == <<x>>

PluginIds == {"usd", "other"}
NodeIds == {1, 2}
StageIds == {"load", "process"}
PortIndexes == {0, 1}
\* The output ports of the node whose manager is driven.
NodePorts == {0}
\* Opaque NodeData payloads.
NodeData == {"d1", "d2"}
\* Messages a failing PluginCache::insert may carry.
ErrMsgs == {"out of memory"}

OptStageIds == {None} \cup {Some(s) : s \in StageIds}

\* struct PluginCacheKey
PluginCacheKey == [plugin_id : PluginIds, node_id : NodeIds,
                   stage_id : OptStageIds, port_index : PortIndexes]

\* PluginCacheKey::new
new(p, node_id, port_index) ==
    [plugin_id |-> p, node_id |-> node_id, stage_id |-> None, port_index |-> port_index]

\* PluginCacheKey::with_stage
with_stage(p, node_id, stage, port_index) ==
    [plugin_id |-> p, node_id |-> node_id, stage_id |-> Some(stage),
     port_index |-> port_index]

\* PluginCacheKey::has_stage
has_stage(key) == key.stage_id # None

\* PluginCacheKey::get_stage
get_stage(key) == key.stage_id

\* key_eq with the presence of a stage left out of the comparison.
key_eq_StageBlind(a, b) ==
    /\ a.plugin_id = b.plugin_id
    /\ a.node_id = b.node_id
    /\ (a.stage_id = None \/ b.stage_id = None \/ a.stage_id = b.stage_id)
    /\ a.port_index = b.port_index

\* #[derive(PartialEq, Eq)] on PluginCacheKey: field by field.
key_eq(a, b) ==
    /\ a.plugin_id = b.plugin_id
    /\ a.node_id = b.node_id
    /\ a.stage_id = b.stage_id
    /\ a.port_index = b.port_index

\* enum PluginCacheKeyPattern
Node(p, n) == [kind |-> "Node", plugin_id |-> p, node_id |-> n]
Stage(p, n, s) == [kind |-> "Stage", plugin_id |-> p, node_id |-> n, stage |-> s]
Exact(k) == [kind |-> "Exact", key |-> k]
Plugin(p) == [kind |-> "Plugin", plugin_id |-> p]

\* matches with an absent stage taken as a wildcard by the Stage pattern.
matches_StageWildcard(pattern, key) ==
    CASE pattern.kind = "Node" ->
            key.plugin_id = pattern.plugin_id /\ key.node_id = pattern.node_id
      [] pattern.kind = "Stage" ->
            /\ key.plugin_id = pattern.plugin_id
            /\ key.node_id = pattern.node_id
            /\ (key.stage_id = None \/ key.stage_id = Some(pattern.stage))
      [] pattern.kind = "Exact" -> key_eq(key, pattern.key)
      [] pattern.kind = "Plugin" -> key.plugin_id = pattern.plugin_id

\* matches with the Node pattern looking at staged keys only.
matches_NodeStagedOnly(pattern, key) ==
    CASE pattern.kind = "Node" ->
            /\ key.plugin_id = pattern.plugin_id
            /\ key.node_id = pattern.node_id
            /\ key.stage_id # None
      [] pattern.kind = "Stage" ->
            /\ key.plugin_id = pattern.plugin_id
            /\ key.node_id = pattern.node_id
            /\ key.stage_id = Some(pattern.stage)
      [] pattern.kind = "Exact" -> key_eq(key, pattern.key)
      [] pattern.kind = "Plugin" -> key.plugin_id = pattern.plugin_id

\* matches with the Stage pattern not comparing the node.
matches_StageAnyNode(pattern, key) ==
    CASE pattern.kind = "Node" ->
            key.plugin_id = pattern.plugin_id /\ key.node_id = pattern.node_id
      [] pattern.kind = "Stage" ->
            /\ key.plugin_id = pattern.plugin_id
            /\ key.stage_id = Some(pattern.stage)
      [] pattern.kind = "Exact" -> key_eq(key, pattern.key)
      [] pattern.kind = "Plugin" -> key.plugin_id = pattern.plugin_id

\* matches whose Node arm takes the node of any plugin.
matches_NodeAnyPlugin(pattern, key) ==
    CASE pattern.kind = "Node" -> key.node_id = pattern.node_id
      [] pattern.kind = "Stage" ->
            /\ key.plugin_id = pattern.plugin_id
            /\ key.node_id = pattern.node_id
            /\ key.stage_id = Some(pattern.stage)
      [] pattern.kind = "Exact" -> key_eq(key, pattern.key)
      [] pattern.kind = "Plugin" -> key.plugin_id = pattern.plugin_id

\* PluginCacheKeyPattern::matches
matches(pattern, key) ==
    CASE pattern.kind = "Node" ->
            key.plugin_id = pattern.plugin_id /\ key.node_id = pattern.node_id
      [] pattern.kind = "Stage" ->
            /\ key.plugin_id = pattern.plugin_id
            /\ key.node_id = pattern.node_id
            /\ key.stage_id = Some(pattern.stage)
      [] pattern.kind = "Exact" -> key_eq(key, pattern.key)
      [] pattern.kind = "Plugin" -> key.plugin_id = pattern.plugin_id

\* The threads that hold the PluginCache (the trait is Send + Sync).
Threads == {"t1", "t2"}

\* A thread that is inside no call of the PluginCache.
Idle == [pc |-> "idle"]

\* What a key holds while an insert is writing its value.
Torn == "torn"

\* Result<(), String>
Ok == [tag |-> "Ok"]
Err(msg) == [tag |-> "Err", msg |-> msg]
InsertResults == {Ok} \cup {Err(m) : m \in ErrMsgs}

\* ---------------------------------------------------------------- PluginCacheStatistics

\* The values of usize, and usize arithmetic that wraps around.
UsizeModulus == 2 ^ UsizeBits
Usize == 0..(UsizeModulus - 1)

\* The counters of PluginCacheStatistics that its two methods read.
PluginCacheStatistics ==
    [cache_hits : Usize, cache_misses : Usize,
     total_entries : Usize, estimated_memory_usage : Usize]

\* How the crate is compiled: with overflow checks (debug) or without (release).
Builds == {"debug", "release"}

\* An f32 that is the quotient of two integers, kept as the fraction it rounds
\* (`as f32` is exact on the integers of the model), and a panic.
F32(num, den) == [tag |-> "f32", num |-> num, den |-> den]
Panic == [tag |-> "panic"]

\* PluginCacheStatistics::hit_ratio. The sum of the two counters is a usize
\* addition: when it overflows, a build with overflow checks panics and one
\* without wraps around.
hit_ratio(stats, build) ==
    LET sum == stats.cache_hits + stats.cache_misses
        total_accesses == sum % UsizeModulus
    IN  IF sum >= UsizeModulus /\ build = "debug" THEN Panic
        ELSE IF total_accesses = 0 THEN F32(0, 1)
        ELSE F32(stats.cache_hits, total_accesses)

\* avg_memory_per_entry that rounds the quotient up.
avg_memory_per_entry_RoundUp(stats) ==
    IF stats.total_entries = 0 THEN 0
    ELSE (stats.estimated_memory_usage + stats.total_entries - 1) \div stats.total_entries

\* PluginCacheStatistics::avg_memory_per_entry
avg_memory_per_entry(stats) ==
    IF stats.total_entries = 0 THEN 0
    ELSE stats.estimated_memory_usage \div stats.total_entries

\* ---------------------------------------------------------------- PluginCache (host)

EmptyCache == [k \in {} |-> "d1"]

\* insert that leaves an entry already present as it is.
insert_KeepFirst(c, key, data, res) ==
    IF res = Ok /\ key \notin DOMAIN c
    THEN [k \in DOMAIN c \cup {key} |-> IF k = key THEN data ELSE c[k]]
    ELSE c

\* PluginCache::insert: on success the key holds the data, replacing any prior
\* entry; a host-side failure (res) stores nothing.
insert(c, key, data, res) ==
    IF res = Ok
    THEN [k \in DOMAIN c \cup {key} |-> IF k = key THEN data ELSE c[k]]
    ELSE c

\* PluginCache::get: the value under the key, if any; the cache is not changed.
get(c, key) == IF key \in DOMAIN c THEN Some(c[key]) ELSE None

\* PluginCache::contains
contains(c, key) == key \in DOMAIN c

\* take that hands the value out and leaves the entry in the cache.
take_Keep(c, key) == c

\* PluginCache::take: the entry is removed.
take(c, key) == [k \in DOMAIN c \ {key} |-> c[k]]

\* PluginCache::invalidate: every matching entry is removed, the number removed
\* is returned.
invalidate(c, pattern) ==
    LET hit == {k \in DOMAIN c : matches(pattern, k)}
    IN  [cache |-> [k \in DOMAIN c \ hit |-> c[k]], count |-> Cardinality(hit)]

\* clear_plugin that empties the cache of every plugin's entries.
clear_plugin_Everyone(c, p) == [cache |-> EmptyCache, count |-> Cardinality(DOMAIN c)]

\* PluginCache::clear_plugin
clear_plugin(c, p) == invalidate(c, Plugin(p))

\* ---------------------------------------------------------------- PluginCacheManager

\* PluginCacheManager.plugin_id of the modelled manager.
plugin_id == "usd"

\* PluginCacheManager::create_key
create_key(node_id, port_index) == new(plugin_id, node_id, port_index)

\* create_stage_key that builds the single-stage key.
create_stage_key_Unstaged(node_id, stage, port_index) ==
    new(plugin_id, node_id, port_index)

\* PluginCacheManager::create_stage_key
create_stage_key(node_id, stage, port_index) ==
    with_stage(plugin_id, node_id, stage, port_index)

\* retain that drops the first matching key only.
retain_unmatched_FirstOnly(keys, pattern) ==
    LET hits == {i \in 1..Len(keys) : matches(pattern, keys[i])}
    IN  IF hits = {} THEN keys
        ELSE LET first == CHOOSE i \in hits : \A j \in hits : i <= j
             IN  SubSeq(keys, 1, first - 1) \o SubSeq(keys, first + 1, Len(keys))

\* Vec::retain(|key| !pattern.matches(key))
retain_unmatched(keys, pattern) == SelectSeq(keys, LAMBDA key : ~matches(pattern, key))

\* store that tracks the key before looking at the insert's result.
store_TrackAlways(c, mk, key, data, res) ==
    [cache |-> insert(c, key, data, res),
     managed_keys |-> Append(mk, key),
     store_ret |-> res,
     ret |-> res]

\* PluginCacheManager::store: the effect on (cache, managed_keys) and the results.
store(c, mk, key, data, res) ==
    [cache |-> insert(c, key, data, res),
     managed_keys |-> IF res = Ok THEN Append(mk, key) ELSE mk,
     store_ret |-> res,
     ret |-> res]

\* invalidate_node returning the number of keys it pruned locally.
invalidate_node_LocalCount(c, mk, node_id) ==
    LET pattern == Node(plugin_id, node_id)
        inv == invalidate(c, pattern)
    IN  [cache |-> inv.cache,
         managed_keys |-> retain_unmatched(mk, pattern),
         store_ret |-> inv.count,
         ret |-> Len(mk) - Len(retain_unmatched(mk, pattern))]

\* invalidate_node that leaves the managed keys as they are.
invalidate_node_NoPrune(c, mk, node_id) ==
    LET pattern == Node(plugin_id, node_id)
        inv == invalidate(c, pattern)
    IN  [cache |-> inv.cache,
         managed_keys |-> mk,
         store_ret |-> inv.count,
         ret |-> inv.count]

\* PluginCacheManager::invalidate_node
invalidate_node(c, mk, node_id) ==
    LET pattern == Node(plugin_id, node_id)
        inv == invalidate(c, pattern)
    IN  [cache |-> inv.cache,
         managed_keys |-> retain_unmatched(mk, pattern),
         store_ret |-> inv.count,
         ret |-> inv.count]

\* invalidate_stage that cascades to the whole node.
invalidate_stage_Cascade(c, mk, node_id, stage) ==
    LET pattern == Node(plugin_id, node_id)
        inv == invalidate(c, pattern)
    IN  [cache |-> inv.cache,
         managed_keys |-> retain_unmatched(mk, pattern),
         store_ret |-> inv.count,
         ret |-> inv.count]

\* invalidate_stage returning the number of keys it stopped tracking.
invalidate_stage_ReportPruned(c, mk, node_id, stage) ==
    LET pattern == Stage(plugin_id, node_id, stage)
        inv == invalidate(c, pattern)
    IN  [cache |-> inv.cache,
         managed_keys |-> retain_unmatched(mk, pattern),
         store_ret |-> inv.count,
         ret |-> Len(mk) - Len(retain_unmatched(mk, pattern))]

\* invalidate_stage that forgets every managed key.
invalidate_stage_ForgetAll(c, mk, node_id, stage) ==
    LET pattern == Stage(plugin_id, node_id, stage)
        inv == invalidate(c, pattern)
    IN  [cache |-> inv.cache,
         managed_keys |-> <<>>,
         store_ret |-> inv.count,
         ret |-> inv.count]

\* PluginCacheManager::invalidate_stage
invalidate_stage(c, mk, node_id, stage) ==
    LET pattern == Stage(plugin_id, node_id, stage)
        inv == invalidate(c, pattern)
    IN  [cache |-> inv.cache,
         managed_keys |-> retain_unmatched(mk, pattern),
         store_ret |-> inv.count,
         ret |-> inv.count]

\* clear_all that prunes only what the cache reported as removed.
clear_all_KeepOnZero(c, mk) ==
    LET inv == clear_plugin(c, plugin_id)
    IN  [cache |-> inv.cache,
         managed_keys |-> IF inv.count = 0 THEN mk ELSE <<>>,
         store_ret |-> inv.count,
         ret |-> inv.count]

\* PluginCacheManager::clear_all
clear_all(c, mk) ==
    LET inv == clear_plugin(c, plugin_id)
    IN  [cache |-> inv.cache,
         managed_keys |-> <<>>,
         store_ret |-> inv.count,
         ret |-> inv.count]

\* PluginCacheManager::managed_key_count
managed_key_count == Len(managed_keys)

\* ---------------------------------------------------------------- strategies

\* strategies::SimpleCache::get_cached
get_cached(c, node_id, port_index) == get(c, create_key(node_id, port_index))

\* strategies::SimpleCache::store_result
store_result(c, mk, node_id, port_index, data, res) ==
    store(c, mk, create_key(node_id, port_index), data, res)

\* strategies::SimpleCache::invalidate
simple_invalidate(c, mk, node_id) == invalidate_node(c, mk, node_id)

\* get_stage_cached that looks the single-stage key up.
get_stage_cached_NoStage(c, node_id, stage, port_index) ==
    get(c, create_key(node_id, port_index))

\* strategies::MultiStageCache::get_stage_cached
get_stage_cached(c, node_id, stage, port_index) ==
    get(c, create_stage_key(node_id, stage, port_index))

\* strategies::MultiStageCache::store_stage_result
store_stage_result(c, mk, node_id, stage, port_index, data, res) ==
    store(c, mk, create_stage_key(node_id, stage, port_index), data, res)

\* MultiStageCache::invalidate_stage that invalidates the whole node.
multi_invalidate_stage_WholeNode(c, mk, node_id, stage) == invalidate_node(c, mk, node_id)

\* strategies::MultiStageCache::invalidate_stage
multi_invalidate_stage(c, mk, node_id, stage) == invalidate_stage(c, mk, node_id, stage)

\* invalidate_all_stages that invalidates the "load" stage only.
invalidate_all_stages_OneStage(c, mk, node_id) == invalidate_stage(c, mk, node_id, "load")

\* strategies::MultiStageCache::invalidate_all_stages
invalidate_all_stages(c, mk, node_id) == invalidate_node(c, mk, node_id)

\* ---------------------------------------------------------------- examples

\* Ok(outputs) with the one entry "output".
OkOutputs(v) == [tag |-> "Ok", outputs |-> [output |-> v]]

\* ExampleSimpleCachedPlugin::expensive_computation: always Ok(String).
expensive_computation == "Expensive result"

\* ExampleMultiStageCachedPlugin::stage1_load_data: always Ok(String).
stage1_load_data == "Loaded data"

\* ExampleMultiStageCachedPlugin::stage2_process_data: always Ok(String).
stage2_process_data(stage1_data) == "Processed data"

\* What a call that has not reached Store.insert reports as the insert's result.
NoInsert == [tag |-> "none"]

\* process_with_cache that computes and stores without a lookup.
process_with_cache_NoLookup(c, mk, node_id, res) ==
    LET st == store_result(c, mk, node_id, 0, expensive_computation, res)
    IN  [cache |-> st.cache, managed_keys |-> st.managed_keys,
         store_ret |-> st.store_ret,
         ret |-> IF st.ret = Ok THEN OkOutputs(expensive_computation) ELSE st.ret,
         computed |-> 1, inserts |-> 1]

\* ExampleSimpleCachedPlugin::process_with_cache; res is what Store.insert
\* returns if it is called. computed and inserts count the computations and the
\* calls of Store.insert.
process_with_cache(c, mk, node_id, res) ==
    LET cached == get_cached(c, node_id, 0) IN
    IF cached # None
    THEN [cache |-> c, managed_keys |-> mk, store_ret |-> NoInsert,
          ret |-> OkOutputs(cached[1]), computed |-> 0, inserts |-> 0]
    ELSE LET st == store_result(c, mk, node_id, 0, expensive_computation, res)
         IN  [cache |-> st.cache, managed_keys |-> st.managed_keys,
              store_ret |-> st.store_ret,
              ret |-> IF st.ret = Ok THEN OkOutputs(expensive_computation) ELSE st.ret,
              computed |-> 1, inserts |-> 1]

\* One stage of process_with_multistage_cache from state (c, mk): the cached
\* value, or the computed one stored with result res; failed says the stage
\* returned early with the error of the store.
run_stage(c, mk, node_id, stage, computed_data, res) ==
    LET cached == get_stage_cached(c, node_id, stage, 0) IN
    IF cached # None
    THEN [cache |-> c, managed_keys |-> mk, store_ret |-> NoInsert, failed |-> FALSE,
          data |-> cached[1], computed |-> 0]
    ELSE LET st == store_stage_result(c, mk, node_id, stage, 0, computed_data, res)
         IN  [cache |-> st.cache, managed_keys |-> st.managed_keys,
              store_ret |-> st.store_ret, failed |-> st.ret # Ok,
              data |-> computed_data, computed |-> 1]

\* process_with_multistage_cache that recomputes stage 2 whenever it reloaded
\* stage 1.
process_with_multistage_cache_Cascade(c, mk, node_id, res1, res2) ==
    LET s1 == run_stage(c, mk, node_id, "stage1", stage1_load_data, res1) IN
    IF s1.failed
    THEN [cache |-> s1.cache, managed_keys |-> s1.managed_keys,
          store_ret |-> s1.store_ret, ret |-> s1.store_ret,
          computed |-> s1.computed, inserts |-> 1,
          computed1 |-> s1.computed, computed2 |-> 0]
    ELSE LET from == IF s1.computed = 1
                     THEN take(s1.cache, create_stage_key(node_id, "stage2", 0))
                     ELSE s1.cache
             s2 == run_stage(from, s1.managed_keys, node_id, "stage2",
                             stage2_process_data(s1.data), res2)
         IN  [cache |-> s2.cache, managed_keys |-> s2.managed_keys,
              store_ret |-> IF s2.store_ret = NoInsert THEN s1.store_ret
                            ELSE s2.store_ret,
              ret |-> IF s2.failed THEN s2.store_ret ELSE OkOutputs(s2.data),
              computed |-> s1.computed + s2.computed,
              inserts |-> s1.computed + s2.computed,
              computed1 |-> s1.computed, computed2 |-> s2.computed]

\* ExampleMultiStageCachedPlugin::process_with_multistage_cache; res1 and res2
\* are what Store.insert returns for stage 1 and stage 2 if it is called.
process_with_multistage_cache(c, mk, node_id, res1, res2) ==
    LET s1 == run_stage(c, mk, node_id, "stage1", stage1_load_data, res1) IN
    IF s1.failed
    THEN [cache |-> s1.cache, managed_keys |-> s1.managed_keys,
          store_ret |-> s1.store_ret, ret |-> s1.store_ret,
          computed |-> s1.computed, inserts |-> 1,
          computed1 |-> s1.computed, computed2 |-> 0]
    ELSE LET s2 == run_stage(s1.cache, s1.managed_keys, node_id, "stage2",
                             stage2_process_data(s1.data), res2)
         IN  [cache |-> s2.cache, managed_keys |-> s2.managed_keys,
              store_ret |-> IF s2.store_ret = NoInsert THEN s1.store_ret
                            ELSE s2.store_ret,
              ret |-> IF s2.failed THEN s2.store_ret ELSE OkOutputs(s2.data),
              computed |-> s1.computed + s2.computed,
              inserts |-> s1.computed + s2.computed,
              computed1 |-> s1.computed, computed2 |-> s2.computed]

\* on_parameters_changed that invalidates every stage of the node.
on_parameters_changed_AllStages(c, mk, node_id) == invalidate_all_stages(c, mk, node_id)

\* ExampleMultiStageCachedPlugin::on_parameters_changed
on_parameters_changed(c, mk, node_id) == multi_invalidate_stage(c, mk, node_id, "stage2")

\* ExampleMultiStageCachedPlugin::on_file_changed
on_file_changed(c, mk, node_id) == invalidate_all_stages(c, mk, node_id)

\* ---------------------------------------------------------------- NodeExecutionHooks (host side)

\* What a hook returns: the trait's default bodies return Ok(()), an
\* implementation may return Err(message).
HookResults == {Ok, Err("hook failed")}

\* What the node's computation comes to.
ProcessResults == {Ok, Err("process failed")}

\* The hooks of the graph events.
EventHooks ==
    {"on_node_removed", "on_input_connection_added",
     "on_input_connection_removed", "on_parameter_changed"}

\* The six hooks.
Hooks == {"before_execution", "after_execution"} \cup EventHooks

\* thread_of with one worker thread for every node.
thread_of_Single(n) == 1

\* The worker thread a node's execution and hook calls run on: each node has
\* its own.
thread_of(n) == n

\* may_call_hook that lets the host call a hook of a node at any time.
may_call_hook_Always(g, n) == TRUE

\* The host calls a hook of node n only while no step of the node's timeline
\* (a hook or its computation) is under way.
may_call_hook(g, n) == g[n].pc = "idle"

\* A node's worker thread is inside a hook call of another node.
blocked(g, n) ==
    \E m \in NodeIds \ {n} : thread_of(m) = thread_of(n) /\ g[m].pc \in Hooks

\* ExampleAdvancedHooks::new
new_hooks(p) == [plugin_id |-> p, managed_keys |-> <<>>]

\* The plugin holds the hook object it created; the host holds none yet.
NewHooks ==
    [refs |-> [original |-> "box1", copy |-> "null"],
     heap |-> [b \in {"box1"} |-> new_hooks("usd")]]

\* clone_box that hands out the box of the original.
clone_box_Alias(h) == [h EXCEPT !.refs.copy = h.refs.original]

\* ExampleAdvancedHooks::clone_box: Box::new(self.clone()), a new box holding
\* a copy of the fields; the copy the host held before is dropped.
clone_box(h) ==
    [refs |-> [h.refs EXCEPT !.copy = "box2"],
     heap |-> [b \in {"box1", "box2"} |->
                 IF b = "box2" THEN h.heap[h.refs.original] ELSE h.heap[b]]]

\* The state of the hook object a holder has.
state_of(h, holder) == h.heap[h.refs[holder]]

\* The hook object of a holder records a key in its managed_keys.
track(h, holder, key) ==
    [h EXCEPT !.heap[h.refs[holder]].managed_keys = Append(@, key)]

\* A default body whose before_execution reports a failure.
default_hook_Failing(hook, c, mk) ==
    [result |-> IF hook = "before_execution" THEN Err("hook failed") ELSE Ok,
     cache |-> c, managed_keys |-> mk]

\* The default body of each of the six hooks, which DefaultHooks keeps: Ok(()),
\* with nothing touched.
default_hook(hook, c, mk) == [result |-> Ok, cache |-> c, managed_keys |-> mk]

\* A node as it is added to the graph: no execution yet, no input edge.
\* trace lists the steps of the node's latest execution that have returned.
NewNode ==
    [pc |-> "idle", trace |-> <<>>, pending |-> None, outputs |-> None,
     surfaced |-> None, warning |-> None,
     in_graph |-> TRUE, connected |-> FALSE, param |-> "d1"]

\* The message of a failed result, if it is one.
warning_of(r) == IF r = Ok THEN None ELSE Some(r.msg)

\* The host starts an execution of the node: it calls before_execution.
begin_execution(nd) ==
    [nd EXCEPT !.pc = "before_execution", !.trace = <<>>, !.pending = None,
               !.outputs = None, !.surfaced = None, !.warning = None]

\* before_returned that goes on to the computation whatever the hook returned.
before_returned_Continue(nd, r) ==
    [nd EXCEPT !.pc = "process",
               !.trace = <<[step |-> "before_execution", result |-> r]>>]

\* before_execution returned r: on Ok the node computes, on Err the execution
\* is aborted and the error is surfaced to the user.
before_returned(nd, r) ==
    IF r = Ok
    THEN [nd EXCEPT !.pc = "process",
                    !.trace = <<[step |-> "before_execution", result |-> r]>>]
    ELSE [nd EXCEPT !.pc = "idle",
                    !.trace = <<[step |-> "before_execution", result |-> r]>>,
                    !.surfaced = Some(r.msg)]

\* process_returned that calls after_execution whatever the computation came to.
process_returned_AfterAlways(nd, r) ==
    [nd EXCEPT !.pc = "after_execution",
               !.trace = Append(@, [step |-> "process", result |-> r]),
               !.pending = Some(nd.param)]

\* The computation returned: on success the host calls after_execution with the
\* outputs, on failure the execution ends with the error surfaced.
process_returned(nd, r) ==
    IF r = Ok
    THEN [nd EXCEPT !.pc = "after_execution",
                    !.trace = Append(@, [step |-> "process", result |-> r]),
                    !.pending = Some(nd.param)]
    ELSE [nd EXCEPT !.pc = "idle",
                    !.trace = Append(@, [step |-> "process", result |-> r]),
                    !.surfaced = Some(r.msg)]

\* after_execution returned r: the outputs are delivered; an Err is a warning.
after_returned(nd, r) ==
    [nd EXCEPT !.pc = "idle",
               !.trace = Append(@, [step |-> "after_execution", result |-> r]),
               !.outputs = nd.pending, !.pending = None,
               !.warning = warning_of(r)]

\* A graph event on the node: the host calls the event's hook; change is the
\* new parameter value, if the event is a parameter edit.
begin_event(nd, hook, change) ==
    [nd EXCEPT !.pc = hook, !.pending = change, !.warning = None]

\* event_returned that drops the graph change when the hook returned Err.
event_returned_DropOnErr(nd, r) ==
    IF r = Ok
    THEN [nd EXCEPT !.pc = "idle", !.pending = None,
                    !.in_graph = IF nd.pc = "on_node_removed" THEN FALSE ELSE @,
                    !.connected = CASE nd.pc = "on_input_connection_added" -> TRUE
                                    [] nd.pc = "on_input_connection_removed" -> FALSE
                                    [] nd.pc = "on_node_removed" -> FALSE
                                    [] OTHER -> @,
                    !.param = IF nd.pc = "on_parameter_changed" THEN nd.pending[1] ELSE @]
    ELSE [nd EXCEPT !.pc = "idle", !.pending = None, !.warning = warning_of(r)]

\* The hook of a graph event returned r: the event takes effect; an Err is a
\* warning.
event_returned(nd, r) ==
    [nd EXCEPT !.pc = "idle", !.pending = None, !.warning = warning_of(r),
               !.in_graph = IF nd.pc = "on_node_removed" THEN FALSE ELSE @,
               !.connected = CASE nd.pc = "on_input_connection_added" -> TRUE
                               [] nd.pc = "on_input_connection_removed" -> FALSE
                               [] nd.pc = "on_node_removed" -> FALSE
                               [] OTHER -> @,
               !.param = IF nd.pc = "on_parameter_changed" THEN nd.pending[1] ELSE @]

\* ---------------------------------------------------------------- actions

\* The state after an operation with outcome r, invoked as described by c.
Apply(c, r) ==
    /\ cache' = r.cache
    /\ managed_keys' = r.managed_keys
    /\ ret' = r.ret
    /\ store_ret' = r.store_ret
    /\ pruned' = IF Len(r.managed_keys) < Len(managed_keys)
                 THEN Len(managed_keys) - Len(r.managed_keys)
                 ELSE 0
    /\ call' = c
    /\ UNCHANGED aux

\* manager.store(cache, key, data) with any key of the given set.
Store(keys, datas, bound) ==
    \E key \in keys, data \in datas, res \in InsertResults :
        /\ Len(managed_keys) < bound
        /\ key \in DOMAIN cache \/ Cardinality(DOMAIN cache) < bound
        /\ Apply([op |-> "store", key |-> key],
                 store(cache, managed_keys, key, data, res))

\* simple.store_result(cache, node_id, port_index, data)
StoreResult ==
    \E n \in NodeIds, i \in NodePorts, data \in NodeData, res \in InsertResults :
        /\ Len(managed_keys) < MaxManaged
        /\ Apply([op |-> "store_result", key |-> create_key(n, i),
                  node_id |-> n, port_index |-> i, data |-> data],
                 store_result(cache, managed_keys, n, i, data, res))

\* multi.store_stage_result(cache, node_id, stage_id, port_index, data)
StoreStageResult ==
    \E n \in NodeIds, s \in StageIds, i \in NodePorts,
       data \in NodeData, res \in InsertResults :
        /\ Len(managed_keys) < MaxManaged
        /\ Apply([op |-> "store_stage_result", key |-> create_stage_key(n, s, i),
                  node_id |-> n, stage |-> s, port_index |-> i, data |-> data],
                 store_stage_result(cache, managed_keys, n, s, i, data, res))

\* The outcome of a lookup that found v: nothing but the result changes.
Found(v) == [cache |-> cache, managed_keys |-> managed_keys, store_ret |-> v, ret |-> v]

\* simple.get_cached(cache, node_id, port_index)
GetCached ==
    \E n \in NodeIds, i \in NodePorts :
        Apply([op |-> "get_cached", node_id |-> n, port_index |-> i],
              Found(get_cached(cache, n, i)))

\* multi.get_stage_cached(cache, node_id, stage_id, port_index)
GetStageCached ==
    \E n \in NodeIds, s \in StageIds, i \in NodePorts :
        Apply([op |-> "get_stage_cached", node_id |-> n, stage |-> s, port_index |-> i],
              Found(get_stage_cached(cache, n, s, i)))

\* manager.invalidate_node(cache, node_id)
InvalidateNode ==
    \E n \in NodeIds :
        Apply([op |-> "invalidate_node", node_id |-> n],
              invalidate_node(cache, managed_keys, n))

\* manager.invalidate_stage(cache, node_id, stage_id)
InvalidateStage ==
    \E n \in NodeIds, s \in StageIds :
        Apply([op |-> "invalidate_stage", node_id |-> n, stage |-> s],
              invalidate_stage(cache, managed_keys, n, s))

\* simple.invalidate(cache, node_id)
SimpleInvalidate ==
    \E n \in NodeIds :
        Apply([op |-> "simple_invalidate", node_id |-> n],
              simple_invalidate(cache, managed_keys, n))

\* multi.invalidate_stage(cache, node_id, stage_id)
MultiInvalidateStage ==
    \E n \in NodeIds, s \in StageIds :
        Apply([op |-> "multi_invalidate_stage", node_id |-> n, stage |-> s],
              multi_invalidate_stage(cache, managed_keys, n, s))

\* multi.invalidate_all_stages(cache, node_id)
InvalidateAllStages ==
    \E n \in NodeIds :
        Apply([op |-> "invalidate_all_stages", node_id |-> n],
              invalidate_all_stages(cache, managed_keys, n))

\* manager.clear_all(cache)
ClearAll ==
    Apply([op |-> "clear_all"], clear_all(cache, managed_keys))

\* The keys of the driven node's ports, of any plugin.
NodeKeys == {k \in PluginCacheKey : k.port_index \in NodePorts}

\* Another holder of the cache (the host, another plugin) inserts an entry.
HostInsert ==
    \E key \in NodeKeys :
        /\ key \notin DOMAIN cache
        /\ Cardinality(DOMAIN cache) < MaxShared
        /\ cache' = insert(cache, key, "d2", Ok)
        /\ call' = [op |-> "host_insert"]
        /\ ret' = Ok /\ store_ret' = Ok /\ pruned' = 0
        /\ UNCHANGED <<managed_keys, aux>>

\* The host evicts an entry (PluginCache::take by another holder).
HostTake ==
    \E key \in DOMAIN cache :
        /\ cache' = take(cache, key)
        /\ call' = [op |-> "host_take"]
        /\ ret' = Ok /\ store_ret' = Ok /\ pruned' = 0
        /\ UNCHANGED <<managed_keys, aux>>

\* PluginCacheManager::new, and a cache holding nothing yet.
Init ==
    /\ cache = EmptyCache
    /\ managed_keys = <<>>
    /\ call = [op |-> "new"]
    /\ ret = Ok
    /\ store_ret = Ok
    /\ pruned = 0
    /\ threads = [t \in Threads |-> Idle]
    /\ written = {}
    /\ graph = [n \in NodeIds |-> NewNode]
    /\ running = {}
    /\ hooks = NewHooks
    /\ peer_keys = <<>>

\* Keys the manager builds for itself.
OwnKeys == {k \in NodeKeys : k.plugin_id = plugin_id}

\* One plugin node drives its manager (directly or through a strategy) and is the
\* only user of the cache.
Next ==
    \/ Store(OwnKeys, NodeData, MaxManaged)
    \/ StoreResult
    \/ StoreStageResult
    \/ InvalidateNode
    \/ InvalidateStage
    \/ SimpleInvalidate
    \/ MultiInvalidateStage
    \/ InvalidateAllStages
    \/ ClearAll

Spec == Init /\ [][Next]_vars

\* One plugin node is the only user of the cache and hands manager.store any
\* key, built by the manager or with PluginCacheKey::new / with_stage.
NextAnyKey ==
    \/ Store(NodeKeys, {"d1"}, MaxShared)
    \/ InvalidateNode
    \/ InvalidateStage
    \/ ClearAll

SpecAnyKey == Init /\ [][NextAnyKey]_vars

\* The manager shares the cache with other holders that insert and evict entries.
NextShared ==
    \/ Store(OwnKeys, {"d1"}, MaxShared)
    \/ InvalidateNode
    \/ InvalidateStage
    \/ ClearAll
    \/ HostInsert
    \/ HostTake

SpecShared == Init /\ [][NextShared]_vars

\* A node stores and fetches its results through the two strategies.
NextFetch ==
    \/ StoreResult
    \/ StoreStageResult
    \/ GetCached
    \/ GetStageCached
    \/ SimpleInvalidate
    \/ MultiInvalidateStage

SpecFetch == Init /\ [][NextFetch]_vars

\* ---------------------------------------------------------------- the Store alone

\* Every pattern over the plugins, nodes, stages and keys of the model.
Patterns ==
    {Node(p, n) : p \in PluginIds, n \in NodeIds}
    \cup {Stage(p, n, s) : p \in PluginIds, n \in NodeIds, s \in StageIds}
    \cup {Exact(k) : k \in NodeKeys}
    \cup {Plugin(p) : p \in PluginIds}

\* The state after a call of the Store by one of its holders.
Called(c, new_cache, result) ==
    /\ cache' = new_cache
    /\ call' = c
    /\ ret' = result
    /\ UNCHANGED <<managed_keys, store_ret, pruned, aux>>

\* cache.insert(key, data); prior is what the key held when insert was called.
Insert ==
    \E key \in NodeKeys, data \in NodeData, res \in InsertResults :
        /\ key \in DOMAIN cache \/ Cardinality(DOMAIN cache) < MaxShared
        /\ Called([op |-> "insert", key |-> key, data |-> data,
                   prior |-> get(cache, key)],
                  insert(cache, key, data, res), res)

\* cache.get(&key)
Get ==
    \E key \in NodeKeys :
        Called([op |-> "get", key |-> key], cache, get(cache, key))

\* cache.take(&key)
Take ==
    \E key \in NodeKeys :
        Called([op |-> "take", key |-> key], take(cache, key), get(cache, key))

\* cache.contains(&key)
Contains ==
    \E key \in NodeKeys :
        Called([op |-> "contains", key |-> key], cache, contains(cache, key))

\* cache.invalidate(&pattern)
Invalidate ==
    \E pattern \in Patterns :
        Called([op |-> "invalidate", pattern |-> pattern],
               invalidate(cache, pattern).cache, invalidate(cache, pattern).count)

\* cache.clear_plugin(plugin_id)
ClearPlugin ==
    \E p \in PluginIds :
        Called([op |-> "clear_plugin", plugin_id |-> p],
               clear_plugin(cache, p).cache, clear_plugin(cache, p).count)

\* The holders of the Store call it in any order.
NextStore ==
    \/ Insert
    \/ Get
    \/ Take
    \/ Contains
    \/ Invalidate
    \/ ClearPlugin

SpecStore == Init /\ [][NextStore]_vars

\* A node stores, fetches and invalidates through the manager and the strategies
\* while the host evicts entries.
NextLive ==
    \/ Store(OwnKeys, NodeData, MaxShared)
    \/ GetCached
    \/ GetStageCached
    \/ SimpleInvalidate
    \/ MultiInvalidateStage
    \/ ClearAll
    \/ Take

SpecLive == Init /\ [][NextLive]_vars

\* ---------------------------------------------------------------- two managers on one Store

\* Two PluginCacheManager instances created with the same plugin id, one per
\* node instance of the plugin.
Managers == {"first", "second"}
other_manager(m) == IF m = "first" THEN "second" ELSE "first"

\* The managed_keys field of manager m.
keys_of(m) == IF m = "first" THEN managed_keys ELSE peer_keys

\* Managers that share one list of managed keys.
keys_after_Shared(m, holder, r) == r.managed_keys

\* The managed_keys of holder after a call on manager m with outcome r: each
\* instance owns its Vec, and a method writes the one of self only.
keys_after(m, holder, r) == IF holder = m THEN r.managed_keys ELSE keys_of(holder)

\* A call c on manager m with outcome r.
OnManager(m, c, r) ==
    /\ cache' = r.cache
    /\ managed_keys' = keys_after(m, "first", r)
    /\ peer_keys' = keys_after(m, "second", r)
    /\ ret' = r.ret
    /\ store_ret' = r.store_ret
    /\ pruned' = Len(keys_of(m)) - Len(r.managed_keys)
    /\ call' = c
    /\ UNCHANGED <<threads, written, graph, running, hooks>>

\* The keys the two managers build: two of node 1 and one of node 2.
PeerKeys == {create_key(1, 0), create_stage_key(1, "load", 0), create_key(2, 0)}

\* m.store(cache, key, data)
PeerStore ==
    \E m \in Managers, key \in PeerKeys, res \in InsertResults :
        /\ Len(keys_of(m)) < MaxShared
        /\ key \in DOMAIN cache \/ Cardinality(DOMAIN cache) < MaxShared
        /\ OnManager(m, [op |-> "store", manager |-> m, key |-> key],
                     store(cache, keys_of(m), key, "d1", res))

\* m.invalidate_node(cache, node_id)
PeerInvalidateNode ==
    \E m \in Managers, n \in NodeIds :
        OnManager(m, [op |-> "invalidate_node", manager |-> m, node_id |-> n],
                  invalidate_node(cache, keys_of(m), n))

\* m.clear_all(cache)
PeerClearAll ==
    \E m \in Managers :
        OnManager(m, [op |-> "clear_all", manager |-> m], clear_all(cache, keys_of(m)))

NextPeers == PeerStore \/ PeerInvalidateNode \/ PeerClearAll

SpecPeers == Init /\ [][NextPeers]_vars

\* ---------------------------------------------------------------- threads on the Store

\* The keys and patterns the threads contend on.
ThreadKeys == {create_key(1, 0), create_stage_key(1, "load", 0)}
ThreadPatterns == {Node(plugin_id, 1), Stage(plugin_id, 1, "load")}

\* The calls a thread can make: those with &self and those with &mut self.
SharedCalls ==
    [pc : {"get", "contains"}, key : ThreadKeys]
ExclusiveCalls ==
    [pc : {"insert"}, key : ThreadKeys, data : NodeData, res : InsertResults]
    \cup [pc : {"take"}, key : ThreadKeys]
    \cup [pc : {"invalidate"}, pattern : ThreadPatterns]

\* A &self borrow that is granted whatever the other threads hold.
may_borrow_shared_Unchecked(t) == TRUE

\* A thread may take &self while no other thread holds &mut self.
may_borrow_shared(t) ==
    \A u \in Threads \ {t} : threads[u] \notin ExclusiveCalls

\* A thread may take &mut self while no other thread holds any borrow.
may_borrow_mut(t) ==
    \A u \in Threads \ {t} : threads[u] = Idle

\* A thread enters a call; an insert that will succeed starts writing its value.
Begin(t) ==
    /\ threads[t] = Idle
    /\ \E c \in SharedCalls \cup ExclusiveCalls :
          /\ IF c \in SharedCalls THEN may_borrow_shared(t) ELSE may_borrow_mut(t)
          /\ threads' = [threads EXCEPT ![t] = c]
          /\ cache' = IF c.pc = "insert" THEN insert(cache, c.key, Torn, c.res) ELSE cache
    /\ UNCHANGED <<managed_keys, call, ret, store_ret, pruned, written, graph, running,
                   hooks, peer_keys>>

\* The call a thread is inside of completes and returns.
End(t) ==
    LET c == threads[t] IN
    /\ c # Idle
    /\ threads' = [threads EXCEPT ![t] = Idle]
    /\ call' = [op |-> c.pc, thread |-> t, args |-> c]
    /\ CASE c.pc = "insert" ->
              /\ cache' = insert(cache, c.key, c.data, c.res)
              /\ ret' = c.res
              /\ written' = IF c.res = Ok THEN written \cup {<<c.key, c.data>>} ELSE written
         [] c.pc = "get" ->
              /\ ret' = get(cache, c.key)
              /\ UNCHANGED <<cache, written>>
         [] c.pc = "take" ->
              /\ cache' = take(cache, c.key)
              /\ ret' = get(cache, c.key)
              /\ UNCHANGED written
         [] c.pc = "contains" ->
              /\ ret' = contains(cache, c.key)
              /\ UNCHANGED <<cache, written>>
         [] c.pc = "invalidate" ->
              /\ cache' = invalidate(cache, c.pattern).cache
              /\ ret' = invalidate(cache, c.pattern).count
              /\ UNCHANGED written
    /\ UNCHANGED <<managed_keys, store_ret, pruned, graph, running, hooks, peer_keys>>

NextThreads == \E t \in Threads : Begin(t) \/ End(t)

SpecThreads == Init /\ [][NextThreads]_vars

\* ---------------------------------------------------------------- the host calling the hooks

\* The state after the host's step on node n that leaves the node as nd.
Step(n, c, nd, result) ==
    /\ ~blocked(graph, n)
    /\ graph' = [graph EXCEPT ![n] = nd]
    /\ running' = (running \ (IF c.op \in Hooks THEN {<<n, c.op>>} ELSE {}))
                     \cup (IF nd.pc \in Hooks THEN {<<n, nd.pc>>} ELSE {})
    /\ call' = c
    /\ ret' = result
    /\ UNCHANGED <<cache, managed_keys, store_ret, pruned, threads, written, hooks, peer_keys>>

\* The host schedules node n for execution and calls before_execution.
Execute(n) ==
    /\ may_call_hook(graph, n) /\ graph[n].in_graph
    /\ Step(n, [op |-> "execute", node_id |-> n], begin_execution(graph[n]), Ok)

\* hooks.before_execution(handle, n, connections) returns.
BeforeExecution(n) ==
    /\ graph[n].pc = "before_execution"
    /\ \E r \in HookResults :
          Step(n, [op |-> "before_execution", node_id |-> n],
               before_returned(graph[n], r), r)

\* node.process(inputs) returns.
Process(n) ==
    /\ graph[n].pc = "process"
    /\ \E r \in ProcessResults :
          Step(n, [op |-> "process", node_id |-> n], process_returned(graph[n], r), r)

\* hooks.after_execution(handle, n, outputs) returns.
AfterExecution(n) ==
    /\ graph[n].pc = "after_execution"
    /\ \E r \in HookResults :
          Step(n, [op |-> "after_execution", node_id |-> n],
               after_returned(graph[n], r), r)

\* The user deletes the node, adds or removes its input edge, or edits its
\* parameter: the host calls the hook of the event.
Event(n) ==
    /\ may_call_hook(graph, n) /\ graph[n].in_graph
    /\ \E hook \in EventHooks, v \in NodeData :
          /\ hook = "on_input_connection_added" => ~graph[n].connected
          /\ hook = "on_input_connection_removed" => graph[n].connected
          /\ IF hook = "on_parameter_changed" THEN v # graph[n].param ELSE v = "d1"
          /\ Step(n, [op |-> "event", hook |-> hook, node_id |-> n],
                  begin_event(graph[n], hook,
                              IF hook = "on_parameter_changed" THEN Some(v) ELSE None),
                  Ok)

\* The hook of the event returns.
EventHook(n) ==
    /\ graph[n].pc \in EventHooks
    /\ \E r \in HookResults :
          Step(n, [op |-> graph[n].pc, node_id |-> n], event_returned(graph[n], r), r)

\* The host runs its nodes, each on its own timeline.
NextHooks ==
    \E n \in NodeIds :
        \/ Execute(n)
        \/ BeforeExecution(n)
        \/ Process(n)
        \/ AfterExecution(n)
        \/ Event(n)
        \/ EventHook(n)

SpecHooks == Init /\ [][NextHooks]_vars

\* The node after its running hook returned r.
hook_returned(nd, r) ==
    CASE nd.pc = "before_execution" -> before_returned(nd, r)
      [] nd.pc = "after_execution" -> after_returned(nd, r)
      [] OTHER -> event_returned(nd, r)

\* The running hook of node n, which uses DefaultHooks, returns.
DefaultHook(n) ==
    LET out == default_hook(graph[n].pc, cache, managed_keys)
        nd == hook_returned(graph[n], out.result)
    IN  /\ graph[n].pc \in Hooks
        /\ ~blocked(graph, n)
        /\ graph' = [graph EXCEPT ![n] = nd]
        /\ running' = running \ {<<n, graph[n].pc>>}
        /\ call' = [op |-> graph[n].pc, node_id |-> n]
        /\ ret' = out.result
        /\ cache' = out.cache
        /\ managed_keys' = out.managed_keys
        /\ UNCHANGED <<store_ret, pruned, threads, written, hooks, peer_keys>>

\* Every node uses DefaultHooks, and the plugin's manager stores results.
NextDefault ==
    \/ \E n \in NodeIds : Execute(n) \/ DefaultHook(n) \/ Process(n) \/ Event(n)
    \/ Store(ThreadKeys, {"d1"}, MaxShared)

SpecDefault == Init /\ [][NextDefault]_vars

\* ---------------------------------------------------------------- hook objects

\* The host registers the node's hooks: hooks.clone_box().
CloneBox ==
    /\ hooks' = clone_box(hooks)
    /\ call' = [op |-> "clone_box"]
    /\ ret' = Ok
    /\ UNCHANGED <<cache, managed_keys, store_ret, pruned, threads, written, graph,
                   running, peer_keys>>

\* A hook body (&mut self) of the object of one holder changes its state.
Track ==
    \E holder \in {"original", "copy"}, key \in ThreadKeys :
        /\ hooks.refs[holder] # "null"
        /\ Len(state_of(hooks, holder).managed_keys) < MaxTracked
        /\ hooks' = track(hooks, holder, key)
        /\ call' = [op |-> "track", holder |-> holder, key |-> key]
        /\ ret' = Ok
        /\ UNCHANGED <<cache, managed_keys, store_ret, pruned, threads, written, graph,
                       running, peer_keys>>

NextClone == CloneBox \/ Track

SpecClone == Init /\ [][NextClone]_vars

\* The nodes whose hook calls may take for ever; the calls and computations of
\* the other nodes return.
Stalling == {1}

\* A call or computation of node n that is under way returns.
Returns(n) == BeforeExecution(n) \/ Process(n) \/ AfterExecution(n) \/ EventHook(n)

SpecStall ==
    /\ Init
    /\ [][NextHooks]_vars
    /\ \A n \in NodeIds \ Stalling : WF_vars(Returns(n))

\* ---------------------------------------------------------------- the example plugins

\* The two example plugins.
Simple == "ExampleSimpleCachedPlugin"
Multi == "ExampleMultiStageCachedPlugin"

\* The keys ExampleSimpleCachedPlugin uses.
ExampleKeys == {create_key(n, 0) : n \in NodeIds}

\* The "stage2" keys ExampleMultiStageCachedPlugin uses.
ExampleStage2Keys == {create_stage_key(n, "stage2", 0) : n \in NodeIds}

\* One of the example plugins is created, over a cache holding nothing yet.
InitExample ==
    /\ cache = EmptyCache
    /\ managed_keys = <<>>
    /\ call \in [op : {"new"}, plugin : {Simple, Multi}]
    /\ ret = Ok
    /\ store_ret = Ok
    /\ pruned = 0
    /\ threads = [t \in Threads |-> Idle]
    /\ written = {}
    /\ graph = [n \in NodeIds |-> NewNode]
    /\ running = {}
    /\ hooks = NewHooks
    /\ peer_keys = <<>>

\* plugin.process_with_cache(cache, node_id, inputs)
ProcessWithCache ==
    \E n \in NodeIds, res \in InsertResults :
        LET r == process_with_cache(cache, managed_keys, n, res) IN
        /\ call.plugin = Simple
        /\ Len(r.managed_keys) <= MaxManaged
        /\ res = Ok \/ r.inserts > 0
        /\ Apply([op |-> "process_with_cache", plugin |-> Simple, node_id |-> n,
                  computed |-> r.computed, inserts |-> r.inserts], r)

\* The last call completed process_with_multistage_cache for node n.
completed(n) ==
    /\ call.op = "process_with_multistage_cache"
    /\ call.node_id = n
    /\ ret.tag = "Ok"

\* The change of node n the last call reported right after a completed
\* process call for n, if any.
change_before(n) ==
    IF /\ call.op \in {"on_parameters_changed", "on_file_changed"}
       /\ call.node_id = n
       /\ call.completed
    THEN call.op
    ELSE "none"

\* plugin.process_with_multistage_cache(cache, node_id, inputs)
ProcessWithMultistageCache ==
    \E n \in NodeIds, res1, res2 \in InsertResults :
        LET r == process_with_multistage_cache(cache, managed_keys, n, res1, res2) IN
        /\ call.plugin = Multi
        /\ Len(r.managed_keys) <= MaxManaged
        /\ Apply([op |-> "process_with_multistage_cache", plugin |-> Multi,
                  node_id |-> n, computed |-> r.computed, inserts |-> r.inserts,
                  computed1 |-> r.computed1, computed2 |-> r.computed2,
                  after |-> change_before(n)], r)

\* plugin.on_parameters_changed(cache, node_id)
OnParametersChanged ==
    \E n \in NodeIds :
        /\ call.plugin = Multi
        /\ Apply([op |-> "on_parameters_changed", plugin |-> Multi, node_id |-> n,
                  completed |-> completed(n)],
                 on_parameters_changed(cache, managed_keys, n))

\* plugin.on_file_changed(cache, node_id)
OnFileChanged ==
    \E n \in NodeIds :
        /\ call.plugin = Multi
        /\ Apply([op |-> "on_file_changed", plugin |-> Multi, node_id |-> n,
                  completed |-> completed(n)],
                 on_file_changed(cache, managed_keys, n))

\* Another holder of the cache evicts an entry of the plugin.
ExampleEvict ==
    \E key \in DOMAIN cache :
        /\ cache' = take(cache, key)
        /\ call' = [op |-> "evict", plugin |-> call.plugin, key |-> key]
        /\ ret' = Ok /\ store_ret' = Ok /\ pruned' = 0
        /\ UNCHANGED <<managed_keys, aux>>

\* Another holder of the cache writes an entry under a key of the simple plugin
\* or under a "stage2" key of the multi-stage plugin.
ExampleInsert ==
    \E key \in IF call.plugin = Simple THEN ExampleKeys ELSE ExampleStage2Keys :
        /\ get(cache, key) # <<"d2">>
        /\ cache' = insert(cache, key, "d2", Ok)
        /\ call' = [op |-> "foreign_insert", plugin |-> call.plugin, key |-> key]
        /\ ret' = Ok /\ store_ret' = Ok /\ pruned' = 0
        /\ UNCHANGED <<managed_keys, aux>>

NextExample ==
    \/ ExampleInsert
    \/ ProcessWithCache
    \/ ProcessWithMultistageCache
    \/ OnParametersChanged
    \/ OnFileChanged
    \/ ExampleEvict

SpecExample == InitExample /\ [][NextExample]_vars

\* ---------------------------------------------------------------- cache_utils

\* Strings are sequences of characters. Identifiers are made of a letter and of
\* the separator of to_cache_string, and may be empty.
IdChars == {"a", ":"}
Identifiers == UNION {[1..n -> IdChars] : n \in 0..MaxIdLen}

\* cache_utils::PluginCacheKey
CacheUtilsKey ==
    [plugin_id : Identifiers, node_id : NodeIds,
     stage_id : {None} \cup {Some(st) : st \in Identifiers}, data_id : Identifiers]

\* cache_utils::PluginCacheKey::simple
simple(p, node_id, data_id) ==
    [plugin_id |-> p, node_id |-> node_id, stage_id |-> None, data_id |-> data_id]

\* cache_utils::PluginCacheKey::with_stage
staged(p, node_id, stage, data_id) ==
    [plugin_id |-> p, node_id |-> node_id, stage_id |-> Some(stage), data_id |-> data_id]

\* Display of a u32: its decimal digits.
Digits == <<"0", "1", "2", "3", "4", "5", "6", "7", "8", "9">>
RECURSIVE u32_to_string(_)
u32_to_string(n) ==
    IF n < 10 THEN <<Digits[n + 1]>>
    ELSE u32_to_string(n \div 10) \o <<Digits[(n % 10) + 1]>>

\* to_cache_string that writes an absent stage as an empty field.
to_cache_string_EmptyStage(key) ==
    <<"p", "l", "u", "g", "i", "n", ":">> \o key.plugin_id \o <<":">>
        \o u32_to_string(key.node_id) \o <<":">>
        \o (IF key.stage_id = None THEN <<>> ELSE key.stage_id[1]) \o <<":">>
        \o key.data_id

\* cache_utils::PluginCacheKey::to_cache_string: format!("plugin:{}:{}:{}:{}")
\* with a stage and format!("plugin:{}:{}:{}") without.
to_cache_string(key) ==
    <<"p", "l", "u", "g", "i", "n", ":">> \o key.plugin_id \o <<":">>
        \o u32_to_string(key.node_id) \o <<":">>
        \o (IF key.stage_id = None THEN <<>> ELSE key.stage_id[1] \o <<":">>)
        \o key.data_id

\* A plugin holds a cache_utils key, built with simple or with_stage.
InitString ==
    /\ cache = EmptyCache
    /\ managed_keys = <<>>
    /\ call \in [op : {"key"}, key : CacheUtilsKey]
    /\ ret = Ok
    /\ store_ret = Ok
    /\ pruned = 0
    /\ threads = [t \in Threads |-> Idle]
    /\ written = {}
    /\ graph = [n \in NodeIds |-> NewNode]
    /\ running = {}
    /\ hooks = NewHooks
    /\ peer_keys = <<>>

\* key.to_cache_string()
ToCacheString ==
    /\ call.op = "key"
    /\ call' = [op |-> "to_cache_string", key |-> call.key]
    /\ ret' = to_cache_string(call.key)
    /\ UNCHANGED <<cache, managed_keys, store_ret, pruned, aux>>

NextString == ToCacheString

SpecString == InitString /\ [][NextString]_vars

\* ---------------------------------------------------------------- InterfaceParameter

\* The values of the parameters: some i32 values, some strings, the options.
ParamIntegers == {0, 1, 2}
ParamStrings == {"a", "b"}
OptionLists == UNION {[1..n -> ParamStrings] : n \in 0..MaxOptions}

\* InterfaceParameter, its variants other than Float, Vector3 and Color. The
\* fields are public: value need not lie within min..max, nor within options.
InterfaceParameter ==
    [variant : {"Integer"}, value : ParamIntegers, min : {0}, max : {1}]
    \cup [variant : {"String"}, value : ParamStrings]
    \cup [variant : {"Boolean"}, value : BOOLEAN]
    \cup [variant : {"Enum"}, value : 0..MaxOptions, options : OptionLists]
    \cup [variant : {"FilePath"}, value : ParamStrings, filter : {"*.usd"}]

\* The NodeData values that meet these parameters, and one of another variant.
ParamData ==
    [variant : {"Integer"}, value : ParamIntegers]
    \cup [variant : {"String"}, value : ParamStrings]
    \cup [variant : {"Boolean"}, value : BOOLEAN]
    \cup {[variant |-> "None"]}

\* options.iter().position(|opt| opt == new_value): the first index (from 0)
\* of the option, if any.
position(options, new_value) ==
    LET hits == {i \in 1..Len(options) : options[i] = new_value}
    IN  IF hits = {} THEN None
        ELSE Some((CHOOSE i \in hits : \A j \in hits : i <= j) - 1)

\* InterfaceParameter::to_node_data; options[*value] panics when value is not
\* an index of options.
to_node_data(param) ==
    CASE param.variant = "Integer" -> [variant |-> "Integer", value |-> param.value]
      [] param.variant = "String" -> [variant |-> "String", value |-> param.value]
      [] param.variant = "Boolean" -> [variant |-> "Boolean", value |-> param.value]
      [] param.variant = "Enum" ->
            IF param.value < Len(param.options)
            THEN [variant |-> "String", value |-> param.options[param.value + 1]]
            ELSE Panic
      [] param.variant = "FilePath" -> [variant |-> "String", value |-> param.value]

\* A call that returned the boolean b.
Returned(b) == [tag |-> "returned", value |-> b]

\* The outcome of from_node_data: the parameter afterwards and the result.
Updated(param, new_value) ==
    IF param.value # new_value
    THEN [param |-> [param EXCEPT !.value = new_value], changed |-> TRUE]
    ELSE [param |-> param, changed |-> FALSE]

\* from_node_data that takes the text of the option for an Enum's value.
from_node_data_OptionAsValue(param, data) ==
    IF param.variant = "Enum" /\ data.variant = "String"
    THEN [param |-> [param EXCEPT !.value = data.value], changed |-> TRUE]
    ELSE [param |-> param, changed |-> FALSE]

\* InterfaceParameter::from_node_data
from_node_data(param, data) ==
    CASE param.variant = "Integer" /\ data.variant = "Integer" -> Updated(param, data.value)
      [] param.variant = "String" /\ data.variant = "String" -> Updated(param, data.value)
      [] param.variant = "Boolean" /\ data.variant = "Boolean" -> Updated(param, data.value)
      [] param.variant = "Enum" /\ data.variant = "String" ->
            LET index == position(param.options, data.value)
            IN  IF index # None THEN Updated(param, index[1])
                ELSE [param |-> param, changed |-> FALSE]
      [] param.variant = "FilePath" /\ data.variant = "String" -> Updated(param, data.value)
      [] OTHER -> [param |-> param, changed |-> FALSE]

\* A panel holds a parameter.
InitParam ==
    /\ cache = EmptyCache
    /\ managed_keys = <<>>
    /\ call \in [op : {"param"}, param : InterfaceParameter]
    /\ ret = Ok
    /\ store_ret = Ok
    /\ pruned = 0
    /\ threads = [t \in Threads |-> Idle]
    /\ written = {}
    /\ graph = [n \in NodeIds |-> NewNode]
    /\ running = {}
    /\ hooks = NewHooks
    /\ peer_keys = <<>>

\* param.to_node_data()
ToNodeData ==
    /\ call.op = "param"
    /\ call' = [op |-> "to_node_data", param |-> call.param]
    /\ ret' = to_node_data(call.param)
    /\ UNCHANGED <<cache, managed_keys, store_ret, pruned, aux>>

\* param.from_node_data(&data)
FromNodeData ==
    \E data \in ParamData :
        LET out == from_node_data(call.param, data) IN
        /\ call.op = "param"
        /\ call' = [op |-> "from_node_data", param |-> call.param, data |-> data,
                    after |-> out.param]
        /\ ret' = Returned(out.changed)
        /\ UNCHANGED <<cache, managed_keys, store_ret, pruned, aux>>

\* param.from_node_data(&param.to_node_data())
RoundTrip ==
    LET data == to_node_data(call.param)
        out == from_node_data(call.param, data)
    IN  /\ call.op = "param"
        /\ call' = [op |-> "round_trip", param |-> call.param, data |-> data,
                    after |-> IF data = Panic THEN call.param ELSE out.param]
        /\ ret' = IF data = Panic THEN Panic ELSE Returned(out.changed)
        /\ UNCHANGED <<cache, managed_keys, store_ret, pruned, aux>>

NextParam == ToNodeData \/ FromNodeData \/ RoundTrip

SpecParam == InitParam /\ [][NextParam]_vars

\* ---------------------------------------------------------------- statistics alone

\* The host hands out the statistics of a plugin, with any counters.
InitStats ==
    /\ cache = EmptyCache
    /\ managed_keys = <<>>
    /\ call \in [op : {"get_plugin_statistics"}, stats : PluginCacheStatistics]
    /\ ret = Ok
    /\ store_ret = Ok
    /\ pruned = 0
    /\ threads = [t \in Threads |-> Idle]
    /\ written = {}
    /\ graph = [n \in NodeIds |-> NewNode]
    /\ running = {}
    /\ hooks = NewHooks
    /\ peer_keys = <<>>

\* stats.hit_ratio()
HitRatio ==
    \E build \in Builds :
        /\ call.op = "get_plugin_statistics"
        /\ call' = [op |-> "hit_ratio", stats |-> call.stats]
        /\ ret' = hit_ratio(call.stats, build)
        /\ UNCHANGED <<cache, managed_keys, store_ret, pruned, aux>>

\* stats.avg_memory_per_entry()
AvgMemoryPerEntry ==
    /\ call.op = "get_plugin_statistics"
    /\ call' = [op |-> "avg_memory_per_entry", stats |-> call.stats]
    /\ ret' = avg_memory_per_entry(call.stats)
    /\ UNCHANGED <<cache, managed_keys, store_ret, pruned, aux>>

NextStats == HitRatio \/ AvgMemoryPerEntry

SpecStats == InitStats /\ [][NextStats]_vars

\* ---------------------------------------------------------------- pattern matching alone

\* The four patterns built from (p, n, s) and the key k1, each evaluated on key k.
match_all(p, n, s, k1, k) ==
    [node |-> matches(Node(p, n), k),
     stage |-> matches(Stage(p, n, s), k),
     exact |-> matches(Exact(k1), k),
     plugin |-> matches(Plugin(p), k)]

\* Any pattern parameters and any two keys.
InitMatch ==
    /\ cache = EmptyCache
    /\ managed_keys = <<>>
    /\ ret = Ok
    /\ store_ret = Ok
    /\ pruned = 0
    /\ threads = [t \in Threads |-> Idle]
    /\ written = {}
    /\ graph = [n \in NodeIds |-> NewNode]
    /\ running = {}
    /\ hooks = NewHooks
    /\ peer_keys = <<>>
    /\ call \in [op : {"inputs"}, plugin_id : PluginIds, node_id : NodeIds,
                  stage : StageIds, exact : PluginCacheKey, key : PluginCacheKey]

\* pattern.matches(&key) for each of the four patterns.
Match ==
    /\ call.op = "inputs"
    /\ call' = [call EXCEPT !.op = "matches"]
    /\ ret' = match_all(call.plugin_id, call.node_id, call.stage, call.exact, call.key)
    /\ UNCHANGED <<cache, managed_keys, store_ret, pruned, aux>>

\* A key with what its accessors say of it.
inspect(key) == [key |-> key, has_stage |-> has_stage(key), get_stage |-> get_stage(key)]

\* The four key builders, on the plugin, node and stage of the inputs and the
\* port of the input key.
Build ==
    /\ call.op = "inputs"
    /\ call' = [call EXCEPT !.op = "built"]
    /\ ret' = [new |-> inspect(new(call.plugin_id, call.node_id, call.key.port_index)),
               with_stage |-> inspect(with_stage(call.plugin_id, call.node_id,
                                                 call.stage, call.key.port_index)),
               create_key |-> inspect(create_key(call.node_id, call.key.port_index)),
               create_stage_key |-> inspect(create_stage_key(call.node_id, call.stage,
                                                             call.key.port_index))]
    /\ UNCHANGED <<cache, managed_keys, store_ret, pruned, aux>>

NextMatch == Match \/ Build

SpecMatch == InitMatch /\ [][NextMatch]_vars

\* ---------------------------------------------------------------- claims: patterns

\* A pattern evaluation has run on call.key.
Matched == call.op = "matches"

\* The stage of a key is present and is s.
HasStage(k, s) == Len(k.stage_id) = 1 /\ k.stage_id[1] = s

\* C7: a Stage pattern (p, n, s) matches key k exactly when k's plugin is p, its
\* node is n and its stage is present and equal to s, whatever the port; a key
\* without a stage is never matched.
C7_StageMatch ==
    Matched =>
        /\ ret.stage <=> (/\ call.key.plugin_id = call.plugin_id
                          /\ call.key.node_id = call.node_id
                          /\ HasStage(call.key, call.stage))
        /\ call.key.stage_id = None => ~ret.stage

\* C7 witness: a key of the pattern's plugin and node, on the second port and
\* without a stage, was evaluated and not matched.
C7_Witness ==
    /\ Matched
    /\ call.key.plugin_id = call.plugin_id
    /\ call.key.node_id = call.node_id
    /\ call.key.stage_id = None
    /\ call.key.port_index = 1
    /\ ~ret.stage

\* C8: a Node pattern (p, n) matches key k exactly when k's plugin is p and its
\* node is n, whatever k's stage and port.
C8_NodeMatch ==
    Matched =>
        (ret.node <=> (call.key.plugin_id = call.plugin_id
                       /\ call.key.node_id = call.node_id))

\* C8 witness: a staged key on the second port was matched by a Node pattern.
C8_Witness ==
    /\ Matched
    /\ ret.node
    /\ call.key.stage_id = Some("process")
    /\ call.key.port_index = 1

\* C9: an Exact pattern on key k1 matches key k2 exactly when the two agree on
\* plugin, node, port, presence of a stage and, when present, the stage.
C9_ExactMatch ==
    Matched =>
        (ret.exact <=>
            /\ call.key.plugin_id = call.exact.plugin_id
            /\ call.key.node_id = call.exact.node_id
            /\ call.key.port_index = call.exact.port_index
            /\ Len(call.key.stage_id) = Len(call.exact.stage_id)
            /\ \A s \in StageIds : HasStage(call.key, s) <=> HasStage(call.exact, s))

\* C9 witness: two keys that differ only in that one has a stage were compared
\* and found different.
C9_Witness ==
    /\ Matched
    /\ call.exact.stage_id = None
    /\ call.key = [call.exact EXCEPT !.stage_id = Some("load")]
    /\ ~ret.exact

\* C10: whatever a Stage pattern (p, n, s) matches, the Node pattern (p, n)
\* matches too, and whatever that matches, the Plugin pattern (p) matches; for
\* every (p, n, s) some key is matched by Node and not by Stage.
C10_Containment ==
    /\ Matched => (ret.stage => ret.node) /\ (ret.node => ret.plugin)
    /\ \A p \in PluginIds, n \in NodeIds, s \in StageIds :
          \E k \in PluginCacheKey :
              matches(Node(p, n), k) /\ ~matches(Stage(p, n, s), k)

\* C10 witness: a key matched by the Node pattern and not by the Stage pattern.
C10_Witness == Matched /\ ret.node /\ ~ret.stage /\ ret.plugin

\* ---------------------------------------------------------------- claims: manager

\* The operations that end in PluginCacheManager::store, ::invalidate_node and
\* ::invalidate_stage, called directly or through a strategy.
StoreOps == {"store", "store_result", "store_stage_result"}
InvalidateNodeOps == {"invalidate_node", "simple_invalidate", "invalidate_all_stages"}
InvalidateStageOps == {"invalidate_stage", "multi_invalidate_stage"}

\* Key k belongs to the manager's plugin and to node n.
OfNode(k, n) == k.plugin_id = plugin_id /\ k.node_id = n

\* Key k belongs to the manager's plugin and node n and has stage s.
OfStage(k, n, s) == OfNode(k, n) /\ HasStage(k, s)

\* The elements of a sequence.
Range(seq) == {seq[i] : i \in 1..Len(seq)}

\* C1: a store whose insert failed returns that very error and leaves
\* managed_keys (contents, order, length) as it was.
C1_FailedStoreKeepsKeys ==
    [][(call'.op \in StoreOps /\ store_ret'.tag = "Err") =>
          /\ ret' = store_ret'
          /\ managed_keys' = managed_keys
          /\ Len(managed_keys') = Len(managed_keys)]_vars

\* C1 witness: a manager that already tracks keys saw an insert fail.
C1_Witness ==
    /\ call.op \in StoreOps
    /\ store_ret.tag = "Err"
    /\ ret.tag = "Err"
    /\ managed_key_count > 0

\* C2: invalidate_stage(n, s) takes from the cache and from managed_keys only
\* keys of the manager's plugin and node n with stage exactly s: every other
\* cache entry keeps its data and every other managed key stays, every
\* occurrence of it.
C2_NoCascade ==
    [][call'.op \in InvalidateStageOps =>
          LET n == call'.node_id
              s == call'.stage
          IN  /\ \A k \in DOMAIN cache :
                    ~OfStage(k, n, s) => k \in DOMAIN cache' /\ cache'[k] = cache[k]
              /\ \A k \in Range(managed_keys) :
                    ~OfStage(k, n, s) =>
                        Cardinality({i \in 1..Len(managed_keys') : managed_keys'[i] = k})
                        = Cardinality({i \in 1..Len(managed_keys) : managed_keys[i] = k})]_vars

\* C2 witness: with the "load" and "process" entries of node 1 stored,
\* invalidate_stage(1, "process") ran: "load" is still in the cache and is the one
\* managed key left.
C2_Witness ==
    /\ call.op \in InvalidateStageOps
    /\ call.node_id = 1 /\ call.stage = "process"
    /\ ret = 1 /\ pruned = 1
    /\ create_stage_key(1, "load", 0) \in DOMAIN cache
    /\ create_stage_key(1, "process", 0) \notin DOMAIN cache
    /\ managed_keys = <<create_stage_key(1, "load", 0)>>
    /\ managed_key_count = 1

\* C3: when the manager alone fills the cache, invalidate_node(n) (also as
\* invalidate_all_stages) returns the number of distinct keys of node n stored
\* and not yet invalidated, leaves no cache entry and no managed key of that
\* plugin and node, and leaves managed_keys empty when only node n was stored.
C3_InvalidateAllStages ==
    [][call'.op \in InvalidateNodeOps =>
          LET n == call'.node_id
              stored == {k \in Range(managed_keys) : OfNode(k, n)}
          IN  /\ ret' = Cardinality(stored)
              /\ \A k \in DOMAIN cache' : ~OfNode(k, n)
              /\ \A k \in Range(managed_keys') : ~OfNode(k, n)
              /\ (\A k \in Range(managed_keys) : OfNode(k, n)) =>
                    Len(managed_keys') = 0]_vars

\* C3 witness: invalidate_all_stages of node 1 returned 2 after the "load" and
\* "process" results of node 1, and nothing else, had been stored.
C3_Witness ==
    /\ call.op = "invalidate_all_stages"
    /\ call.node_id = 1
    /\ ret = 2 /\ pruned = 2
    /\ cache = EmptyCache
    /\ managed_key_count = 0

\* C4: clear_all returns the count the cache returned from clear_plugin, which
\* is the number of entries of the manager's plugin, and leaves managed_keys empty.
C4_ClearAll ==
    [][call'.op = "clear_all" =>
          /\ ret' = store_ret'
          /\ ret' = Cardinality({k \in DOMAIN cache : k.plugin_id = plugin_id})
          /\ managed_keys' = <<>>
          /\ Len(managed_keys') = 0]_vars

\* C4 witness: clear_all dropped managed keys while the cache removed a
\* different number of entries.
C4_Witness ==
    /\ call.op = "clear_all"
    /\ pruned > 0
    /\ ret # pruned
    /\ managed_key_count = 0

\* C5: invalidate_node and invalidate_stage return the number of entries the
\* cache removed, whatever number of keys left managed_keys.
C5_ReturnsStoreCount ==
    [][call'.op \in InvalidateNodeOps \cup InvalidateStageOps =>
          /\ ret' = store_ret'
          /\ ret' = Cardinality(DOMAIN cache \ DOMAIN cache')]_vars

\* C5 witness: an invalidation for which the cache removed more entries than
\* the manager pruned keys.
C5_Witness ==
    /\ call.op \in InvalidateNodeOps \cup InvalidateStageOps
    /\ ret > pruned
    /\ pruned > 0

\* C6: after invalidate_node(n), resp. invalidate_stage(n, s), managed_keys is
\* what it was with the keys of the plugin and node n, resp. of stage s of it,
\* taken out and the others left in their order.
C6_Pruned ==
    [][/\ call'.op \in InvalidateNodeOps =>
            managed_keys' =
                SelectSeq(managed_keys, LAMBDA k : ~OfNode(k, call'.node_id))
       /\ call'.op \in InvalidateStageOps =>
            managed_keys' =
                SelectSeq(managed_keys, LAMBDA k : ~OfStage(k, call'.node_id, call'.stage))
      ]_vars

\* C6 witness: one key was pruned and two different keys are left.
C6_Witness ==
    /\ call.op \in InvalidateNodeOps \cup InvalidateStageOps
    /\ pruned = 1
    /\ managed_key_count = 2
    /\ managed_keys[1] # managed_keys[2]

\* ---------------------------------------------------------------- claims: key builders

\* C11: a key built by new or create_key has no stage (has_stage false,
\* get_stage none); a key built by with_stage or create_stage_key with stage s
\* has has_stage true and get_stage exactly s; the manager's builders put the
\* manager's plugin_id, and the given node and port, in the key.
C11_Builders ==
    call.op = "built" =>
        /\ ~ret.new.has_stage /\ ret.new.get_stage = <<>>
        /\ ~ret.create_key.has_stage /\ ret.create_key.get_stage = <<>>
        /\ ret.with_stage.has_stage /\ ret.with_stage.get_stage = <<call.stage>>
        /\ ret.create_stage_key.has_stage
        /\ ret.create_stage_key.get_stage = <<call.stage>>
        /\ \A b \in {"create_key", "create_stage_key"} :
              /\ ret[b].key.plugin_id = "usd"
              /\ ret[b].key.node_id = call.node_id
              /\ ret[b].key.port_index = call.key.port_index

\* C11 witness: the builders ran for stage "process", and the staged key of the
\* manager differs from its single-stage key in the stage alone.
C11_Witness ==
    /\ call.op = "built"
    /\ call.stage = "process"
    /\ ret.create_stage_key.get_stage = <<"process">>
    /\ ret.create_key.key = [ret.create_stage_key.key EXCEPT !.stage_id = <<>>]

\* ---------------------------------------------------------------- claims: round trip

\* C12: when store_result(node, port, v) returned Ok, a get_cached(node, port)
\* that follows it immediately returns v; when store_stage_result(node, stage,
\* port, v) returned Ok, a get_stage_cached(node, stage, port) that follows it
\* immediately returns v.
C12_RoundTrip ==
    [][/\ (/\ call.op = "store_result" /\ ret = Ok
            /\ call'.op = "get_cached"
            /\ call'.node_id = call.node_id
            /\ call'.port_index = call.port_index)
           => ret' = <<call.data>>
       /\ (/\ call.op = "store_stage_result" /\ ret = Ok
            /\ call'.op = "get_stage_cached"
            /\ call'.node_id = call.node_id
            /\ call'.stage = call.stage
            /\ call'.port_index = call.port_index)
           => ret' = <<call.data>>]_vars

\* C12 witness: get_stage_cached returned "d2" for a stage while the node's
\* single-stage entry and its other stage hold "d1".
C12_Witness ==
    /\ call.op = "get_stage_cached"
    /\ call.stage = "process"
    /\ ret = <<"d2">>
    /\ get_cached(cache, call.node_id, call.port_index) = <<"d1">>
    /\ get(cache, with_stage("usd", call.node_id, "load", call.port_index)) = <<"d1">>

\* ---------------------------------------------------------------- claims: the Store

\* The entries of c other than those under the keys of set ks.
Without(c, ks) == [k \in DOMAIN c \ ks |-> c[k]]

\* C13: an insert under a key that is already present is not an error by
\* itself: when the host reports no failure it returns Ok, the key then holds
\* the new value, the number of entries is unchanged and every other entry is
\* as before; an insert returns an error only when the host reported one, and
\* then the Store is unchanged.
C13_InsertReplaces ==
    [][call'.op = "insert" =>
         /\ ret' = Ok =>
               /\ call'.key \in DOMAIN cache' /\ cache'[call'.key] = call'.data
               /\ Without(cache', {call'.key}) = Without(cache, {call'.key})
               /\ call'.key \in DOMAIN cache =>
                     Cardinality(DOMAIN cache') = Cardinality(DOMAIN cache)
         /\ ret' # Ok => ret' \in {Err(m) : m \in ErrMsgs} /\ cache' = cache]_vars

\* C13 witness: an insert returned Ok and the key, which held "d1" and has a
\* neighbour in the Store, now holds "d2".
C13_Witness ==
    /\ call.op = "insert" /\ ret = Ok
    /\ call.prior = <<"d1">> /\ call.data = "d2"
    /\ cache[call.key] = "d2"
    /\ Cardinality(DOMAIN cache) = 2

\* The keys of c that a pattern selects, by the fields of the key.
Selected(c, pattern) ==
    {k \in DOMAIN c :
        CASE pattern.kind = "Node" ->
                k.plugin_id = pattern.plugin_id /\ k.node_id = pattern.node_id
          [] pattern.kind = "Stage" ->
                /\ k.plugin_id = pattern.plugin_id /\ k.node_id = pattern.node_id
                /\ k.stage_id = <<pattern.stage>>
          [] pattern.kind = "Exact" -> k = pattern.key
          [] pattern.kind = "Plugin" -> k.plugin_id = pattern.plugin_id}

\* C14: invalidate(pattern) removes every entry whose key the pattern matches,
\* leaves every other entry with its value, and returns the number of entries
\* that matched at the time of the call.
C14_Invalidate ==
    [][call'.op = "invalidate" =>
         /\ cache' = Without(cache, Selected(cache, call'.pattern))
         /\ ret' = Cardinality(Selected(cache, call'.pattern))]_vars

\* C14 witness: an invalidate by node removed one entry and returned 1, and
\* the entry of the same node under another plugin is still in the Store.
C14_Witness ==
    /\ call.op = "invalidate" /\ call.pattern.kind = "Node"
    /\ ret = 1
    /\ \E k \in DOMAIN cache :
          k.node_id = call.pattern.node_id /\ k.plugin_id # call.pattern.plugin_id

\* C15: clear_plugin(p) and invalidate(ByPlugin(p)) are the same operation:
\* from any Store either one removes exactly the entries of plugin p and
\* returns their number.
C15_ClearPlugin ==
    [][(call'.op = "clear_plugin"
          \/ (call'.op = "invalidate" /\ call'.pattern.kind = "Plugin")) =>
         LET p == IF call'.op = "clear_plugin"
                  THEN call'.plugin_id ELSE call'.pattern.plugin_id
             own == {k \in DOMAIN cache : k.plugin_id = p}
         IN  /\ cache' = Without(cache, own)
             /\ ret' = Cardinality(own)
             /\ clear_plugin(cache, p) = invalidate(cache, Plugin(p))]_vars

\* C15 witness: clear_plugin removed the one entry of its plugin and the entry
\* of the other plugin is still in the Store.
C15_Witness ==
    /\ call.op = "clear_plugin"
    /\ ret = 1
    /\ \E k \in DOMAIN cache : k.plugin_id # call.plugin_id

\* C16: take(k) on a present key returns the value the key holds, which is the
\* value last inserted under it, and removes the entry in the same step, so
\* that contains(k) is false afterwards and the other entries are as before;
\* take(k) on an absent key returns nothing and leaves the Store unchanged.
C16_Take ==
    [][call'.op = "take" =>
         /\ IF call'.key \in DOMAIN cache
            THEN /\ ret' = <<cache[call'.key]>>
                 /\ cache' = Without(cache, {call'.key})
                 /\ ~contains(cache', call'.key)
            ELSE ret' = <<>> /\ cache' = cache
         /\ (call.op = "insert" /\ ret = Ok /\ call.key = call'.key)
               => ret' = <<call.data>>]_vars

\* C16 witness: a take returned "d2", its key is no longer in the Store and
\* another entry is.
C16_Witness ==
    /\ call.op = "take"
    /\ ret = <<"d2">>
    /\ call.key \notin DOMAIN cache
    /\ Cardinality(DOMAIN cache) = 1

\* ---------------------------------------------------------------- claims: threads

\* C17: whatever the interleaving of insert, get, take, contains and invalidate
\* by the threads on the same keys, a get or a take returns nothing or a value
\* that an insert wrote in full under that key; a value under construction is
\* never returned.
C17_NoTornValue ==
    (call.op \in {"get", "take"} /\ ret # <<>>) =>
        /\ <<call.args.key, ret[1]>> \in written
        /\ ret[1] # Torn

\* C17 witness: a thread got a value of a key that the other thread is now
\* overwriting, and both values of the key have been written in full before.
C17_Witness ==
    /\ call.op = "get" /\ ret # <<>>
    /\ \E u \in Threads \ {call.thread} :
          /\ threads[u] \in ExclusiveCalls
          /\ threads[u].pc = "insert" /\ threads[u].res = Ok
          /\ threads[u].key = call.args.key
    /\ {<<call.args.key, d>> : d \in NodeData} \subseteq written

\* ---------------------------------------------------------------- claims: hooks

\* The steps of a node's latest execution that have returned, by name.
Steps(nd) == {nd.trace[i].step : i \in 1..Len(nd.trace)}

\* C18: when before_execution returned an error, that execution of the node is
\* aborted: the node does not compute, after_execution is not invoked, no
\* outputs are delivered and the error is surfaced.
C18_BeforeErrorAborts ==
    \A n \in NodeIds :
        LET nd == graph[n] IN
        (nd.trace # <<>> /\ nd.trace[1].result # Ok) =>
            /\ Steps(nd) = {"before_execution"}
            /\ nd.pc \notin {"process", "after_execution"}
            /\ nd.outputs = <<>>
            /\ nd.surfaced = <<nd.trace[1].result.msg>>

\* C18 witness: before_execution has just returned an error for a node whose
\* input is connected, and the node is idle with the error surfaced.
C18_Witness ==
    /\ call.op = "before_execution" /\ ret # Ok
    /\ graph[call.node_id].connected
    /\ graph[call.node_id].pc = "idle"
    /\ graph[call.node_id].surfaced = <<"hook failed">>

\* C19: whatever a hook other than before_execution returns, the graph event
\* has its outcome: after after_execution the computed outputs are delivered,
\* after on_node_removed the node is out of the graph, after
\* on_input_connection_added / _removed the edge is there / gone, after
\* on_parameter_changed the parameter has its new value; an error of the hook
\* is kept as a warning and is not surfaced as a failure of the node.
C19_OtherHookErrorsNonFatal ==
    [][\A n \in NodeIds :
         LET nd == graph[n]
             nd2 == graph'[n]
         IN  (nd.pc \in EventHooks \cup {"after_execution"} /\ nd2.pc = "idle") =>
               /\ nd.pc = "after_execution" =>
                     nd2.outputs = nd.pending /\ nd2.outputs # <<>>
               /\ nd.pc = "on_node_removed" => ~nd2.in_graph
               /\ nd.pc = "on_input_connection_added" => nd2.connected
               /\ nd.pc = "on_input_connection_removed" => ~nd2.connected
               /\ nd.pc = "on_parameter_changed" =>
                     nd2.param = nd.pending[1] /\ nd2.param # nd.param
               /\ nd2.surfaced = nd.surfaced
               /\ nd2.warning = (IF ret' = Ok THEN <<>> ELSE <<ret'.msg>>)]_vars

\* C19 witness: on_node_removed has just returned an error, the node is out
\* of the graph, and the outputs of its execution, delivered although
\* after_execution returned an error, are still there.
C19_Witness ==
    /\ call.op = "on_node_removed" /\ ret # Ok
    /\ ~graph[call.node_id].in_graph
    /\ graph[call.node_id].warning = <<"hook failed">>
    /\ graph[call.node_id].outputs # <<>>
    /\ graph[call.node_id].trace[3].result # Ok

\* C20: within one execution of a node, the computation starts only after
\* before_execution was invoked and returned Ok, and after_execution is invoked
\* only after before_execution returned Ok and the computation completed
\* successfully, in that order; while before_execution runs nothing of the
\* execution has happened yet.
C20_HookOrder ==
    \A n \in NodeIds :
        LET nd == graph[n] IN
        /\ nd.pc = "before_execution" => nd.trace = <<>>
        /\ (nd.pc = "process" \/ "process" \in Steps(nd)) =>
              nd.trace[1] = [step |-> "before_execution", result |-> Ok]
        /\ nd.pc = "process" => Len(nd.trace) = 1
        /\ (nd.pc = "after_execution" \/ "after_execution" \in Steps(nd)) =>
              /\ Len(nd.trace) >= 2
              /\ nd.trace[1] = [step |-> "before_execution", result |-> Ok]
              /\ nd.trace[2] = [step |-> "process", result |-> Ok]
        /\ nd.pc = "after_execution" => Len(nd.trace) = 2

\* C20 witness: an execution ran before_execution, the computation and
\* after_execution in that order, while the other node's computation failed.
C20_Witness ==
    /\ call.op = "after_execution"
    /\ Len(graph[call.node_id].trace) = 3
    /\ graph[call.node_id].trace[3].step = "after_execution"
    /\ \E m \in NodeIds \ {call.node_id} :
          /\ Len(graph[m].trace) = 2
          /\ graph[m].trace[2].result # Ok

\* The hooks of node n that are running.
RunningOn(n) == {h \in Hooks : <<n, h>> \in running}

\* C21: at no time are two hook methods running for the same node id; hook
\* methods of different node ids can be running at the same time.
C21_SerializedPerNode ==
    \A n \in NodeIds :
        /\ Cardinality(RunningOn(n)) <= 1
        /\ \A h \in RunningOn(n) : graph[n].pc = h
        /\ graph[n].pc \in Hooks => RunningOn(n) = {graph[n].pc}

\* C21 witness: before_execution of one node and on_parameter_changed of the
\* other are running at the same time.
C21_Witness ==
    \E n, m \in NodeIds :
        /\ n # m
        /\ <<n, "before_execution">> \in running
        /\ <<m, "on_parameter_changed">> \in running

\* C22: there is no timeout and no cancellation: a node leaves a hook call
\* only by that call's return, so while a hook call of the node does not
\* return, its computation does not start; whatever happens to the hook calls
\* of a stalling node, every call and computation of another node that is
\* under way completes.
C22_StallIsLocal ==
    /\ [][\A n \in NodeIds :
            (graph[n].pc \in Hooks /\ graph'[n].pc # graph[n].pc) =>
                (call'.op = graph[n].pc /\ call'.node_id = n)]_vars
    /\ \A m \in NodeIds \ Stalling :
          (graph[m].pc # "idle") ~> (graph[m].pc = "idle")

\* C22 witness: after_execution of a node has returned, its outputs are
\* delivered, and before_execution of the stalling node is still running.
C22_Witness ==
    /\ call.op = "after_execution"
    /\ call.node_id \notin Stalling
    /\ graph[call.node_id].outputs # <<>>
    /\ \E n \in Stalling : <<n, "before_execution">> \in running

\* C23: each of the six hooks of DefaultHooks returns Ok and changes nothing:
\* no execution of a node is aborted by a hook, no hook leaves a warning, and
\* no hook call changes the Store or the ManagedKeySet.
C23_DefaultHooks ==
    /\ [](\A n \in NodeIds :
            /\ graph[n].trace # <<>> => graph[n].trace[1].result = Ok
            /\ graph[n].warning = <<>>)
    /\ [][call'.op \in Hooks =>
            /\ ret' = Ok
            /\ cache' = cache
            /\ managed_keys' = managed_keys]_vars

\* C23 witness: on_parameter_changed has returned for a node whose execution
\* ran to the delivery of its outputs, with an entry in the Store and its key
\* in the ManagedKeySet.
C23_Witness ==
    /\ call.op = "on_parameter_changed" /\ ret = Ok
    /\ Len(graph[call.node_id].trace) = 3
    /\ graph[call.node_id].outputs # <<>>
    /\ cache # EmptyCache
    /\ managed_keys # <<>>

\* C24: clone_box yields a new hook object whose state equals the original's
\* at the moment of the call, and leaves the original as it is; afterwards a
\* state change of the original is not visible in the copy, nor one of the
\* copy in the original.
C24_CloneIndependent ==
    [][/\ call'.op = "clone_box" =>
            /\ state_of(hooks', "copy") = state_of(hooks, "original")
            /\ state_of(hooks', "original") = state_of(hooks, "original")
       /\ (call'.op = "track" /\ hooks.refs.copy # "null") =>
            LET other == IF call'.holder = "original" THEN "copy" ELSE "original"
            IN  /\ state_of(hooks', other) = state_of(hooks, other)
                /\ state_of(hooks', call'.holder).managed_keys
                     = Append(state_of(hooks, call'.holder).managed_keys, call'.key)]_vars

\* C24 witness: the original recorded a key after it was duplicated, and the
\* copy still has the one key it was duplicated with.
C24_Witness ==
    /\ call.op = "track" /\ call.holder = "original"
    /\ hooks.refs.copy # "null"
    /\ Len(state_of(hooks, "original").managed_keys) = 2
    /\ Len(state_of(hooks, "copy").managed_keys) = 1
    /\ state_of(hooks, "copy").plugin_id = state_of(hooks, "original").plugin_id

\* ---------------------------------------------------------------- claims: examples

\* The calls of the example plugins that process a node.
ProcessOps == {"process_with_cache", "process_with_multistage_cache"}

\* C25 (as claimed): when Store.insert fails during process_with_cache or
\* process_with_multistage_cache, the value is treated as uncached and the call
\* still returns Ok with the computed outputs.
C25_ProceedsUncached ==
    [][(call'.op \in ProcessOps /\ store_ret' \in {Err(m) : m \in ErrMsgs}) =>
          ret' \in {OkOutputs(expensive_computation),
                    OkOutputs(stage2_process_data(stage1_load_data))}]_vars

\* C25, what the code does instead: an insert that fails ends the call with the
\* error of the Store as its result.
C25_AbortsOnInsertError ==
    [][(call'.op \in ProcessOps /\ store_ret' \in {Err(m) : m \in ErrMsgs}) =>
          ret' = store_ret']_vars

\* C25 witness: a call of process_with_multistage_cache stored stage 1, failed
\* to store stage 2 and returned the error.
C25_Witness ==
    /\ call.op = "process_with_multistage_cache"
    /\ call.computed = 2
    /\ ret = Err("out of memory")
    /\ get_stage_cached(cache, call.node_id, "stage1", 0) = <<"Loaded data">>
    /\ get_stage_cached(cache, call.node_id, "stage2", 0) = <<>>

\* C30 (as claimed): process_with_cache on a hit returns the cached value as
\* "output" without calling Store.insert, computing or changing the
\* ManagedKeySet; on a miss it computes, stores the result under the key of
\* (plugin, node, no stage, port 0) and returns it.
C30_ComputesOnce ==
    [][call'.op = "process_with_cache" =>
         LET cached == get(cache, new("usd", call'.node_id, 0)) IN
         IF cached # <<>>
         THEN /\ ret' = OkOutputs(cached[1])
              /\ call'.inserts = 0 /\ call'.computed = 0
              /\ cache' = cache /\ managed_keys' = managed_keys
         ELSE /\ ret' = OkOutputs(expensive_computation)
              /\ get(cache', new("usd", call'.node_id, 0)) = <<expensive_computation>>]_vars

\* C30, what the code does: process_with_cache on a hit returns the cached value as
\* "output" without calling Store.insert, computing or changing the
\* ManagedKeySet; on a miss it computes once and calls Store.insert once: when
\* the insert succeeds the result is stored under the key of (plugin, node, no
\* stage, port 0), the key is appended to the ManagedKeySet and the result is
\* returned, and the next call for the node with no step in between is a hit
\* that returns the same outputs; when the insert fails nothing is stored, the
\* ManagedKeySet is unchanged and the call returns the error of the Store.
C30_ComputesOnceIfStored ==
    [][call'.op = "process_with_cache" =>
         LET key == new("usd", call'.node_id, 0)
             cached == get(cache, key)
         IN  /\ IF cached # <<>>
                THEN /\ ret' = OkOutputs(cached[1])
                     /\ call'.inserts = 0 /\ call'.computed = 0
                     /\ cache' = cache /\ managed_keys' = managed_keys
                ELSE /\ call'.inserts = 1 /\ call'.computed = 1
                     /\ IF store_ret' = Ok
                        THEN /\ ret' = OkOutputs(expensive_computation)
                             /\ get(cache', key) = <<expensive_computation>>
                             /\ Without(cache', {key}) = cache
                             /\ managed_keys' = Append(managed_keys, key)
                        ELSE /\ ret' = store_ret' /\ ret' \in {Err(m) : m \in ErrMsgs}
                             /\ cache' = cache /\ managed_keys' = managed_keys
             /\ (/\ call.op = "process_with_cache" /\ call.node_id = call'.node_id
                 /\ ret.tag = "Ok")
                  => (call'.computed = 0 /\ ret' = ret)]_vars

\* C30 witness: a call of process_with_cache was a hit on the entry an earlier
\* call had stored, tracked once, while the other node's entry was written by
\* another holder.
C30_Witness ==
    /\ call.op = "process_with_cache"
    /\ call.computed = 0 /\ call.inserts = 0
    /\ ret = OkOutputs(expensive_computation)
    /\ managed_keys = <<new("usd", call.node_id, 0)>>
    /\ \E n \in NodeIds \ {call.node_id} : get_cached(cache, n, 0) = <<"d2">>

\* ---------------------------------------------------------------- claims: manager

\* The entries of c that the manager's invalidation described by call record
\* op matches.
Targets(c, op) ==
    {k \in DOMAIN c :
        CASE op.op = "invalidate_node" -> OfNode(k, op.node_id)
          [] op.op = "invalidate_stage" -> OfStage(k, op.node_id, op.stage)
          [] op.op = "clear_all" -> k.plugin_id = "usd"}

\* C26: invalidate_node, invalidate_stage and clear_all on a Store with no
\* matching entry return 0 and leave the Store unchanged; repeating the
\* invalidation that just ran returns 0 and changes neither the Store nor the
\* ManagedKeySet.
C26_NothingToInvalidate ==
    [][call'.op \in {"invalidate_node", "invalidate_stage", "clear_all"} =>
         /\ Targets(cache, call') = {} => (ret' = 0 /\ cache' = cache)
         /\ call = call' =>
               (ret' = 0 /\ cache' = cache /\ managed_keys' = managed_keys)]_vars

\* C26 witness: invalidate_stage returned 0 on a Store that holds an entry
\* but none of that stage, the key of the stage having been tracked until then.
C26_Witness ==
    /\ call.op = "invalidate_stage"
    /\ ret = 0
    /\ pruned = 1
    /\ cache # EmptyCache

\* The call described by record c is one of those that end the entry under key
\* k: an insert to k, a take of k, an invalidation whose pattern matches k, or
\* a clear of k's plugin.
Destroys(c, k) ==
    \/ c.op \in StoreOps /\ c.key = k
    \/ c.op = "take" /\ c.key = k
    \/ c.op \in InvalidateNodeOps /\ OfNode(k, c.node_id)
    \/ c.op \in InvalidateStageOps /\ OfStage(k, c.node_id, c.stage)
    \/ c.op = "clear_all" /\ k.plugin_id = "usd"

\* C27: an entry stored through the manager stays live, get returning the
\* stored value, across every step that is not an insert to its key, a take
\* of its key, an invalidation whose pattern matches its key or a clear of its
\* plugin; lookups, stores to other keys and invalidations of other nodes or
\* stages leave it as it is.
C27_LiveUntilDestroyed ==
    [][\A k \in DOMAIN cache :
          \/ get(cache', k) = <<cache[k]>>
          \/ Destroys(call', k)]_vars

\* C27 witness: an invalidate_stage of node 1 removed one entry while the
\* entry of the node's other stage is still live with the value stored.
C27_Witness ==
    /\ call.op = "multi_invalidate_stage" /\ call.node_id = 1 /\ call.stage = "load"
    /\ ret = 1
    /\ get_stage_cached(cache, 1, "process", 0) = <<"d2">>

\* ---------------------------------------------------------------- claims: statistics

\* C28 (as claimed): hit_ratio is 0 when cache_hits = cache_misses = 0 and
\* otherwise equals cache_hits / (cache_hits + cache_misses); it always lies
\* between 0 and 1.
C28_HitRatio ==
    call.op = "hit_ratio" =>
        LET hits == call.stats.cache_hits
            misses == call.stats.cache_misses
        IN  /\ ret.tag = "f32"
            /\ (hits = 0 /\ misses = 0) => ret.num = 0
            /\ (hits + misses > 0) => ret.num * (hits + misses) = hits * ret.den
            /\ 0 <= ret.num /\ ret.num <= ret.den

\* C28, where the code agrees with the claim: whenever cache_hits +
\* cache_misses fits in a usize.
C28_HitRatioNoOverflow ==
    (call.op = "hit_ratio"
       /\ call.stats.cache_hits + call.stats.cache_misses < UsizeModulus) =>
        LET hits == call.stats.cache_hits
            misses == call.stats.cache_misses
        IN  /\ ret.tag = "f32"
            /\ (hits = 0 /\ misses = 0) => ret.num = 0
            /\ (hits + misses > 0) => ret.num * (hits + misses) = hits * ret.den
            /\ 0 <= ret.num /\ ret.num <= ret.den

\* C28 witness: with the largest cache_hits and two misses the sum wrapped
\* around to 1 and hit_ratio returned a value above 1.
C28_Witness ==
    /\ call.op = "hit_ratio"
    /\ call.stats.cache_hits = UsizeModulus - 1 /\ call.stats.cache_misses = 2
    /\ ret = F32(UsizeModulus - 1, 1)

\* C29: avg_memory_per_entry is 0 when total_entries = 0 and otherwise the
\* integer quotient of estimated_memory_usage by total_entries, rounded toward
\* zero.
C29_AvgMemory ==
    call.op = "avg_memory_per_entry" =>
        LET entries == call.stats.total_entries
            memory == call.stats.estimated_memory_usage
        IN  /\ entries = 0 => ret = 0
            /\ entries > 0 =>
                  /\ ret \in Usize
                  /\ ret * entries <= memory
                  /\ memory < (ret + 1) * entries

\* C29 witness: 7 bytes over 2 entries gave 3, and a call with no entries
\* and memory in use is possible too.
C29_Witness ==
    /\ call.op = "avg_memory_per_entry"
    /\ call.stats.total_entries = 2 /\ call.stats.estimated_memory_usage = 7
    /\ ret = 3

\* ---------------------------------------------------------------- claims: stages of the example

\* The keys of the two stages of node n in ExampleMultiStageCachedPlugin.
Stage1Key(n) == create_stage_key(n, "stage1", 0)
Stage2Key(n) == create_stage_key(n, "stage2", 0)

\* What on_parameters_changed(n) and on_file_changed(n) remove right after a
\* completed process call for n: the "stage2" entry alone, and both entries.
ChangeRemoves ==
    /\ (call'.op = "on_parameters_changed" /\ call'.completed) =>
          /\ Stage2Key(call'.node_id) \in DOMAIN cache
          /\ cache' = Without(cache, {Stage2Key(call'.node_id)})
          /\ managed_keys' = retain_unmatched(managed_keys, Exact(Stage2Key(call'.node_id)))
    /\ (call'.op = "on_file_changed" /\ call'.completed) =>
          /\ {Stage1Key(call'.node_id), Stage2Key(call'.node_id)} \subseteq DOMAIN cache
          /\ cache' = Without(cache, {Stage1Key(call'.node_id), Stage2Key(call'.node_id)})
          /\ managed_keys' = retain_unmatched(managed_keys, Node(plugin_id, call'.node_id))

\* C31 (as claimed): after a completed process call for node n,
\* on_parameters_changed(n) removes only the "stage2" entry of n, and the next
\* process call takes stage 1 from the cache without reloading it and
\* recomputes and re-stores stage 2; on_file_changed(n) removes both stage
\* entries, and the next call reloads stage 1 and recomputes stage 2.
C31_StageInvalidation ==
    [][/\ ChangeRemoves
       /\ (call'.op = "process_with_multistage_cache"
             /\ call'.after = "on_parameters_changed") =>
            /\ call'.computed1 = 0 /\ call'.computed2 = 1
            /\ get(cache', Stage1Key(call'.node_id)) = get(cache, Stage1Key(call'.node_id))
            /\ get(cache', Stage2Key(call'.node_id))
                 = <<stage2_process_data(stage1_load_data)>>
       /\ (call'.op = "process_with_multistage_cache"
             /\ call'.after = "on_file_changed") =>
            /\ call'.computed1 = 1 /\ call'.computed2 = 1]_vars

\* C31, what the code does: after a completed process call for node n,
\* on_parameters_changed(n) removes only the "stage2" entry of n, and the next
\* process call takes stage 1 from the cache without reloading it, recomputes
\* stage 2 and calls Store.insert for it: stage 2 is stored again and returned
\* when that insert succeeds, and otherwise the call returns the error of the
\* Store and stage 2 stays absent. on_file_changed(n) removes both stage
\* entries, and the next call reloads stage 1; it goes on to recompute stage 2
\* only when the insert of stage 1 succeeds, and returns the error of the Store
\* with nothing stored otherwise.
C31_StageInvalidationIfStored ==
    [][/\ ChangeRemoves
       /\ (call'.op = "process_with_multistage_cache"
             /\ call'.after = "on_parameters_changed") =>
            /\ call'.computed1 = 0 /\ call'.computed2 = 1
            /\ get(cache', Stage1Key(call'.node_id)) = get(cache, Stage1Key(call'.node_id))
            /\ IF store_ret' = Ok
               THEN /\ get(cache', Stage2Key(call'.node_id))
                         = <<stage2_process_data(stage1_load_data)>>
                    /\ ret' = OkOutputs(stage2_process_data(stage1_load_data))
               ELSE /\ cache' = cache
                    /\ ret' = store_ret' /\ ret' \in {Err(m) : m \in ErrMsgs}
       /\ (call'.op = "process_with_multistage_cache"
             /\ call'.after = "on_file_changed") =>
            /\ call'.computed1 = 1
            /\ IF Stage1Key(call'.node_id) \in DOMAIN cache'
               THEN /\ cache'[Stage1Key(call'.node_id)] = stage1_load_data
                    /\ call'.computed2 = 1
                    /\ IF store_ret' = Ok
                       THEN /\ get(cache', Stage2Key(call'.node_id))
                                 = <<stage2_process_data(stage1_load_data)>>
                            /\ ret' = OkOutputs(stage2_process_data(stage1_load_data))
                       ELSE /\ Stage2Key(call'.node_id) \notin DOMAIN cache'
                            /\ ret' = store_ret'
               ELSE /\ call'.computed2 = 0
                    /\ cache' = cache
                    /\ ret' = store_ret' /\ ret' \in {Err(m) : m \in ErrMsgs}]_vars

\* C31 witness: the process call right after on_parameters_changed took stage
\* 1 from the cache, recomputed stage 2 and stored it again.
C31_Witness ==
    /\ call.op = "process_with_multistage_cache"
    /\ call.after = "on_parameters_changed"
    /\ call.computed1 = 0 /\ call.computed2 = 1
    /\ ret = OkOutputs("Processed data")
    /\ get(cache, Stage2Key(call.node_id)) = <<"Processed data">>

\* C31 second case reached: the process call right after on_file_changed
\* reloaded stage 1 and recomputed stage 2.
C31_FileChangedReached ==
    /\ call.op = "process_with_multistage_cache"
    /\ call.after = "on_file_changed"
    /\ call.computed1 = 1 /\ call.computed2 = 1
    /\ ret = OkOutputs("Processed data")

\* C32 (as claimed): when the "stage1" entry of a node is absent and its
\* "stage2" entry is present, process_with_multistage_cache reloads and stores
\* stage 1 and returns the previously cached stage 2 value without recomputing
\* it from the new stage 1 data.
C32_StagesIndependent ==
    [][(/\ call'.op = "process_with_multistage_cache"
        /\ Stage1Key(call'.node_id) \notin DOMAIN cache
        /\ Stage2Key(call'.node_id) \in DOMAIN cache) =>
          /\ call'.computed1 = 1 /\ call'.computed2 = 0
          /\ get(cache', Stage1Key(call'.node_id)) = <<stage1_load_data>>
          /\ ret' = OkOutputs(cache[Stage2Key(call'.node_id)])]_vars

\* C32, what the code does: when the "stage1" entry of a node is absent and its "stage2"
\* entry is present, process_with_multistage_cache reloads stage 1 and calls
\* Store.insert for it, and never recomputes stage 2 nor changes its entry;
\* when the insert succeeds stage 1 is stored and tracked and the call returns
\* the previously cached stage 2 value, and when it fails the call returns the
\* error of the Store and leaves the Store and the ManagedKeySet unchanged.
C32_StagesIndependentIfStored ==
    [][(/\ call'.op = "process_with_multistage_cache"
        /\ Stage1Key(call'.node_id) \notin DOMAIN cache
        /\ Stage2Key(call'.node_id) \in DOMAIN cache) =>
          /\ call'.computed1 = 1 /\ call'.computed2 = 0 /\ call'.inserts = 1
          /\ get(cache', Stage2Key(call'.node_id)) = get(cache, Stage2Key(call'.node_id))
          /\ IF store_ret' = Ok
             THEN /\ get(cache', Stage1Key(call'.node_id)) = <<stage1_load_data>>
                  /\ Without(cache', {Stage1Key(call'.node_id)}) = cache
                  /\ managed_keys' = Append(managed_keys, Stage1Key(call'.node_id))
                  /\ ret' = OkOutputs(cache[Stage2Key(call'.node_id)])
             ELSE /\ cache' = cache /\ managed_keys' = managed_keys
                  /\ ret' = store_ret' /\ ret' \in {Err(m) : m \in ErrMsgs}]_vars

\* C32 witness: with stage 1 evicted and a stage 2 value written by another
\* holder, the call reloaded and stored stage 1 and returned that stage 2 value.
C32_Witness ==
    /\ call.op = "process_with_multistage_cache"
    /\ call.computed1 = 1 /\ call.computed2 = 0
    /\ get(cache, Stage1Key(call.node_id)) = <<"Loaded data">>
    /\ get(cache, Stage2Key(call.node_id)) = <<"d2">>
    /\ ret = OkOutputs("d2")
    /\ Len(managed_keys) = 3

\* ---------------------------------------------------------------- claims: coherency

\* The keys of the Store that belong to the manager's plugin.
PluginKeys(c) == {k \in DOMAIN c : k.plugin_id = plugin_id}

\* C33: when the Store is mutated only through one Manager, with keys the
\* Manager built, then after every operation the set of distinct keys in the
\* ManagedKeySet equals the set of the Store keys of the plugin. (A failed
\* insert changes neither side, so the equality also outlives failed inserts.)
C33_Coherent == Range(managed_keys) = PluginKeys(cache)

\* C33 witness: after an invalidation of one stage that removed an entry, two
\* keys are still tracked and stored.
C33_Witness ==
    /\ call.op = "invalidate_stage" /\ ret = 1
    /\ Cardinality(Range(managed_keys)) = 2
    /\ Range(managed_keys) = PluginKeys(cache)

\* C34 (as claimed): when the Store is mutated only through one Manager, the
\* ManagedKeySet holds each live key once: managed_key_count() equals the
\* number of the Store entries of the plugin, also after the same key was
\* stored again.
C34_EachKeyOnce == managed_key_count = Cardinality(PluginKeys(cache))

\* C34, what the code does: every successful store appends one more occurrence
\* of the key, whether or not the key is tracked already, so that
\* managed_key_count() is the number of Store entries plus the number of
\* successful stores onto keys that were live.
C34_OneOccurrencePerStore ==
    [][/\ managed_key_count' >= Cardinality(PluginKeys(cache'))
       /\ (call'.op \in StoreOps /\ ret' = Ok) =>
            /\ managed_keys' = Append(managed_keys, call'.key)
            /\ Cardinality(PluginKeys(cache'))
                 = Cardinality(PluginKeys(cache))
                   + (IF call'.key \in DOMAIN cache THEN 0 ELSE 1)]_vars

\* C34 witness: a key was stored, and stored again with the recomputed value;
\* the Store holds one entry and the Manager counts two keys.
C34_Witness ==
    /\ call.op = "store" /\ ret = Ok
    /\ managed_keys = <<call.key, call.key>>
    /\ DOMAIN cache = {call.key}
    /\ cache[call.key] = "d2"

\* Every managed key carries the manager's plugin id.
AllOwn(mk) == \A k \in Range(mk) : k.plugin_id = plugin_id

\* C35 (as claimed): after any sequence of Manager operations every key in the
\* ManagedKeySet carries the Manager's own plugin_id, and after clear_all the
\* Store holds no entry that was stored through that Manager (here the only
\* user of the Store).
C35_ScopedKeys ==
    /\ AllOwn(managed_keys)
    /\ call.op = "clear_all" => cache = EmptyCache

\* C35, what the code does: store tracks the key it is given, whatever its
\* plugin id; the managed keys all carry the Manager's plugin_id as long as the
\* keys given to store do, and clear_all removes the entries of the Manager's
\* plugin_id and no other.
C35_ScopedWhenBuilt ==
    [][/\ (AllOwn(managed_keys)
             /\ (call'.op = "store" => call'.key.plugin_id = plugin_id))
            => AllOwn(managed_keys')
       /\ (call'.op = "store" /\ ret' = Ok) =>
            managed_keys' = Append(managed_keys, call'.key)
       /\ call'.op = "clear_all" =>
            /\ cache' = Without(cache, PluginKeys(cache))
            /\ managed_keys' = <<>>]_vars

\* C35 witness: a key of another plugin was stored through the Manager, and
\* after clear_all its entry is still in the Store.
C35_Witness ==
    /\ call.op = "clear_all" /\ ret = 1
    /\ managed_keys = <<>>
    /\ DOMAIN cache = {new("other", 1, 0)}

\* ---------------------------------------------------------------- claims: frames

\* The managed keys of the nodes other than n, in order.
OfOtherNodes(mk, n) == SelectSeq(mk, LAMBDA k : k.node_id # n)

\* C36: invalidate_node(n) and invalidate_stage(n, s) on a Manager with plugin
\* id p leave unchanged every Store entry and every managed key whose node id
\* differs from n, and every Store entry whose plugin id differs from p, even
\* when node ids coincide across plugins; they add nothing to the Store.
C36_OtherNodesAndPlugins ==
    [][call'.op \in {"invalidate_node", "invalidate_stage"} =>
         LET n == call'.node_id IN
         /\ \A k \in DOMAIN cache :
               (k.node_id # n \/ k.plugin_id # plugin_id) => get(cache', k) = <<cache[k]>>
         /\ OfOtherNodes(managed_keys', n) = OfOtherNodes(managed_keys, n)
         /\ DOMAIN cache' \subseteq DOMAIN cache]_vars

\* C36 witness: invalidate_node(1) removed the entry of the Manager's plugin
\* and left the entry of the other plugin for the same node 1.
C36_Witness ==
    /\ call.op = "invalidate_node" /\ call.node_id = 1 /\ ret = 1
    /\ DOMAIN cache = {new("other", 1, 0)}
    /\ managed_keys = <<new("other", 1, 0)>>

\* The managed_keys field of manager m after the step.
keys_next(m) == IF m = "first" THEN managed_keys' ELSE peer_keys'

\* C37: with two Managers of the same plugin id on one Store, clear_all on one
\* removes from the Store also the entries stored through the other and leaves
\* the other's ManagedKeySet unchanged, which then lists no key that is in the
\* Store; invalidate_node(n) on one empties the Store of the plugin's entries
\* of node n and leaves the other's managed keys, those of node n too, in place.
C37_PeerDiverges ==
    [][/\ call'.op = "clear_all" =>
            /\ PluginKeys(cache') = {}
            /\ keys_next(other_manager(call'.manager))
                 = keys_of(other_manager(call'.manager))
            /\ keys_next(call'.manager) = <<>>
            /\ Range(keys_next(other_manager(call'.manager))) \cap DOMAIN cache' = {}
       /\ call'.op = "invalidate_node" =>
            /\ {k \in DOMAIN cache' : OfNode(k, call'.node_id)} = {}
            /\ keys_next(other_manager(call'.manager))
                 = keys_of(other_manager(call'.manager))
            /\ \A k \in Range(keys_of(other_manager(call'.manager))) :
                  OfNode(k, call'.node_id) =>
                     /\ k \in Range(keys_next(other_manager(call'.manager)))
                     /\ k \notin DOMAIN cache']_vars

\* C37 witness: each Manager stored one entry; clear_all on the first removed
\* both, and the second still lists its key.
C37_Witness ==
    /\ call.op = "clear_all" /\ call.manager = "first" /\ ret = 2
    /\ cache = EmptyCache
    /\ managed_keys = <<>>
    /\ peer_keys = <<create_key(2, 0)>>

\* C37 second case reached: invalidate_node(1) on the second Manager removed
\* the entry the first had stored, and the first still lists its key.
C37_InvalidateReached ==
    /\ call.op = "invalidate_node" /\ call.manager = "second" /\ call.node_id = 1
    /\ ret = 1
    /\ managed_keys = <<create_key(1, 0)>>
    /\ create_key(1, 0) \notin DOMAIN cache

\* ---------------------------------------------------------------- claims: cache strings

\* No identifier of the key contains the separator.
NoSeparator(key) ==
    \A id \in {key.plugin_id, key.data_id} \cup Range(key.stage_id) :
        ":" \notin Range(id)

\* C38 (as claimed): to_cache_string is injective: another key yields the
\* same cache string only if it is equal in plugin_id, node_id, stage_id
\* (including its presence) and data_id, also when identifiers contain ':'.
C38_Injective ==
    call.op = "to_cache_string" =>
        \A other \in CacheUtilsKey : to_cache_string(other) = ret => other = call.key

\* C38, what the code does: to_cache_string is injective on the keys whose
\* identifiers do not contain ':'.
C38_InjectiveWithoutSeparator ==
    (call.op = "to_cache_string" /\ NoSeparator(call.key)) =>
        \A other \in CacheUtilsKey :
            (NoSeparator(other) /\ to_cache_string(other) = ret) => other = call.key

\* C38 witness: the key without a stage whose data_id is "a:a" has the cache
\* string of the key with stage "a" and data_id "a".
C38_Witness ==
    /\ call.op = "to_cache_string"
    /\ call.key = simple(<<"a">>, 1, <<"a", ":", "a">>)
    /\ ret = to_cache_string(staged(<<"a">>, 1, <<"a">>, <<"a">>))
    /\ ret = <<"p", "l", "u", "g", "i", "n", ":", "a", ":", "1", ":", "a", ":", "a">>

\* ---------------------------------------------------------------- claims: parameters

\* The NodeData variant from_node_data accepts for a parameter.
Accepts(param) ==
    IF param.variant \in {"Enum", "FilePath"} THEN "String" ELSE param.variant

\* An Enum whose value is the first index of its option; any other parameter.
FirstOfItsOption(param) ==
    param.variant = "Enum" =>
        /\ param.value < Len(param.options)
        /\ position(param.options, param.options[param.value + 1]) = <<param.value>>

\* C39 (as claimed): for every parameter of a variant Integer, String,
\* Boolean, Enum or FilePath, to_node_data is defined, feeding it back with
\* from_node_data leaves the parameter unchanged and returns false, and
\* from_node_data with a value of a mismatching type returns false and leaves
\* the parameter unchanged.
C39_ParamRoundTrip ==
    /\ call.op = "to_node_data" => ret # Panic
    /\ call.op = "round_trip" => (ret = Returned(FALSE) /\ call.after = call.param)
    /\ (call.op = "from_node_data" /\ call.data.variant # Accepts(call.param)) =>
         (ret = Returned(FALSE) /\ call.after = call.param)

\* C39, what the code does: the claim holds for Integer, String, Boolean and
\* FilePath, and for an Enum whose value is the first index of its option;
\* to_node_data panics on an Enum whose value is not an index of options, and
\* the round trip moves any other Enum to the first index of the option and
\* returns true.
C39_ParamRoundTripFirstIndex ==
    /\ call.op = "to_node_data" =>
         (ret = Panic <=> (call.param.variant = "Enum"
                             /\ call.param.value >= Len(call.param.options)))
    /\ call.op = "round_trip" =>
         IF FirstOfItsOption(call.param)
         THEN ret = Returned(FALSE) /\ call.after = call.param
         ELSE \/ ret = Panic
              \/ /\ ret = Returned(TRUE)
                 /\ call.after # call.param
                 /\ to_node_data(call.after) = call.data
    /\ (call.op = "from_node_data" /\ call.data.variant # Accepts(call.param)) =>
         (ret = Returned(FALSE) /\ call.after = call.param)

\* C39 witness: the Enum with options ("a", "a") and value 1 gave "a", and
\* from_node_data moved it to value 0 and returned true.
C39_Witness ==
    /\ call.op = "round_trip"
    /\ call.param = [variant |-> "Enum", value |-> 1, options |-> <<"a", "a">>]
    /\ call.data = [variant |-> "String", value |-> "a"]
    /\ call.after = [variant |-> "Enum", value |-> 0, options |-> <<"a", "a">>]
    /\ ret = Returned(TRUE)

====
